---- MODULE Spec2Model ----
(***************************************************************************)
(* Model of the document chunking engine of zyra_main                      *)
(* (backend/app/services/chunk_services and backend/app/utils/             *)
(* text_splitter.py).  A text is a sequence of one-character strings;      *)
(* offsets are 0-based as in the Python source.                            *)
(***************************************************************************)
EXTENDS Integers, Sequences, FiniteSets, TLC

VARIABLES
    chunker,       \* the AcademicChunker instance (or the failed construction)
    pc,            \* per call: position inside chunk_document
    input,         \* per call: the arguments text and metadata
    meta,          \* per call: the local `metadata` after `metadata or {}`
    stages,        \* per call: the pipeline stages entered so far, in order
    regions,       \* per call: the local `regions`
    sections,      \* per call: the local `sections`
    sec_i,         \* per call: 1-based index of the next section of the loop
    section_chunks,\* per call: the local `section_chunks` of the last iteration
    chunks,        \* per call: the local `chunks` (before overlap)
    final_chunks,  \* per call: the local `final_chunks`
    outcome,       \* per call: what reached the caller
    dicts,         \* per call: the metadata dict objects of a direct add_overlap
                   \* call, and which chunk refers to which
    split_result   \* per call: the result of split_sentences in a direct call
                   \* of split_sentences or of process_section

vars == <<chunker, pc, input, meta, stages, regions, sections, sec_i,
          section_chunks, chunks, final_chunks, outcome, dicts, split_result>>

(***************************************************************************)
(* Bounds of the model.                                                    *)
(***************************************************************************)
\* a document is a concatenation of at most MaxParts parts
MaxParts == 3
\* largest max_chunk_size of a chunker that takes calls
MaxChunkCfg == 2
\* largest overlap_size of a chunker that takes calls
MaxOverlapCfg == 1
\* constructor arguments range over -CfgSpan..CfgSpan
CfgSpan == 3
\* a document given to the detector and the splitter alone is a concatenation
\* of at most MaxSectionParts parts
MaxSectionParts == 5
\* a chunk sequence given to add_overlap alone has at most MaxOverlapChunks
\* chunks
MaxOverlapChunks == 3
\* a text given to split_sentences alone is a concatenation of at most
\* MaxSentenceParts parts
MaxSentenceParts == 5
\* the content of a section given to process_section alone is a concatenation
\* of at most MaxProcessParts parts
MaxProcessParts == 4
\* number of calls of chunk_document in flight on one chunker at a time
MaxCalls == 2
\* a document with headings and lists is a concatenation of at most
\* MaxDocumentParts parts
MaxDocumentParts == 5

(***************************************************************************)
(* Character classes (Python str.isspace / regex \s, [A-Z], [a-z], \d).    *)
(***************************************************************************)
WS == {" ", "\n", "\t"}
UPPER == {"A","B","C","D","E","F","G","H","I","J","K","L","M",
          "N","O","P","Q","R","S","T","U","V","W","X","Y","Z"}
LOWER == {"a","b","c","d","e","f","g","h","i","j","k","l","m",
          "n","o","p","q","r","s","t","u","v","w","x","y","z"}
DIGITS == {"0","1","2","3","4","5","6","7","8","9"}

SetMin(S) == CHOOSE x \in S : \A y \in S : x <= y
SetMax(S) == CHOOSE x \in S : \A y \in S : x >= y

(***************************************************************************)
(* Python string primitives on character sequences.                        *)
(***************************************************************************)
\* text[i] with a 0-based index
Ch(t, i) == t[i + 1]

\* text[a:b] for 0 <= a, b; clamps as Python slicing does
Slice(t, a, b) ==
    LET bb == IF b > Len(t) THEN Len(t) ELSE b
    IN  IF a >= bb THEN <<>> ELSE SubSeq(t, a + 1, bb)

\* text.startswith(lit, i)
StartsWith(t, i, lit) ==
    /\ i + Len(lit) <= Len(t)
    /\ SubSeq(t, i + 1, i + Len(lit)) = lit

\* text.find(sub, from): lowest index >= from of an occurrence, else -1
Find(t, sub, from) ==
    LET C == {i \in from..(Len(t) - Len(sub)) : StartsWith(t, i, sub)}
    IN  IF C = {} THEN -1 ELSE SetMin(C)

\* text.rfind(sub): highest index of an occurrence, else -1
RFind(t, sub) ==
    LET C == {i \in 0..(Len(t) - Len(sub)) : StartsWith(t, i, sub)}
    IN  IF C = {} THEN -1 ELSE SetMax(C)

\* sub in text
Contains(t, sub) == Find(t, sub, 0) # -1

IsBlank(t) == \A i \in 1..Len(t) : t[i] \in WS

\* text.strip()
Strip(t) ==
    IF IsBlank(t) THEN <<>>
    ELSE LET N == {i \in 1..Len(t) : t[i] \notin WS}
         IN  SubSeq(t, SetMin(N), SetMax(N))

\* end (exclusive) of the maximal whitespace run that starts at index i
WsRunEnd(t, i) ==
    SetMin({k \in i..Len(t) : k = Len(t) \/ Ch(t, k) \notin WS})

\* text.replace(old, new, 1): first occurrence only
ReplaceFirst(t, old, new) ==
    LET i == Find(t, old, 0)
    IN  IF i = -1 THEN t
        ELSE Slice(t, 0, i) \o new \o Slice(t, i + Len(old), Len(t))

\* text.replace(old, new) / re.sub of a literal: all non-overlapping
\* occurrences, left to right
RECURSIVE ReplaceAll(_, _, _)
ReplaceAll(t, old, new) ==
    LET i == Find(t, old, 0)
    IN  IF i = -1 THEN t
        ELSE Slice(t, 0, i) \o new
             \o ReplaceAll(Slice(t, i + Len(old), Len(t)), old, new)

\* sep.join(parts)
RECURSIVE Join(_, _)
Join(parts, sep) ==
    IF Len(parts) = 0 THEN <<>>
    ELSE IF Len(parts) = 1 THEN parts[1]
    ELSE parts[1] \o sep \o Join(Tail(parts), sep)

\* text.split("\n")
RECURSIVE SplitLines(_)
SplitLines(t) ==
    LET i == Find(t, <<"\n">>, 0)
    IN  IF i = -1 THEN <<t>>
        ELSE <<Slice(t, 0, i)>> \o SplitLines(Slice(t, i + 1, Len(t)))

(***************************************************************************)
(* utils/text_splitter.py: rough_token_count                               *)
(***************************************************************************)
rough_token_count(t) == IF Len(t) = 0 THEN 0 ELSE Len(t) \div 4

(***************************************************************************)
(* services/chunk_services/types.py: ChunkType                             *)
(***************************************************************************)
TEXT == "text"
FORMULA == "formula"
TABLE == "table"
LIST == "list"
HEADING_WITH_CONTENT == "heading_with_content"
ActiveTypes == {TEXT, FORMULA, TABLE, LIST, HEADING_WITH_CONTENT}
ReservedTypes == {"image", "code", "footer", "header"}

(***************************************************************************)
(* utils/text_splitter.py: lexical patterns                                *)
(***************************************************************************)
Dollar == <<"$">>
DDollar == <<"$", "$">>
BeginEq == <<"\\","b","e","g","i","n","{","e","q","u","a","t","i","o","n","}">>
EndEq == <<"\\","e","n","d","{","e","q","u","a","t","i","o","n","}">>

\* FORMULA_PATTERN tried at index i: end (exclusive) of the match, or -1.
\* Alternatives in order, each lazy up to the first closing delimiter;
\* DOTALL, so the body may contain newlines.
FormulaEndAt(t, i) ==
    IF StartsWith(t, i, DDollar) /\ Find(t, DDollar, i + 2) # -1
      THEN Find(t, DDollar, i + 2) + 2
    ELSE IF StartsWith(t, i, Dollar) /\ Find(t, Dollar, i + 1) # -1
      THEN Find(t, Dollar, i + 1) + 1
    ELSE IF StartsWith(t, i, BeginEq) /\ Find(t, EndEq, i + Len(BeginEq)) # -1
      THEN Find(t, EndEq, i + Len(BeginEq)) + Len(EndEq)
    ELSE -1

\* FORMULA_PATTERN.finditer(text): the non-overlapping matches left to right
RECURSIVE FormulaMatches(_, _)
FormulaMatches(t, from) ==
    LET M == {i \in from..(Len(t) - 1) : FormulaEndAt(t, i) # -1}
    IN  IF M = {} THEN <<>>
        ELSE LET i == SetMin(M)
                 e == FormulaEndAt(t, i)
             IN  <<[start |-> i, end |-> e]>> \o FormulaMatches(t, e)

\* TABLE_PATTERN.search(line) for a line without newline:
\* ^\s*\|(?:[^\|]+\|){2,}.*$
IsTableLine(line) ==
    LET p  == WsRunEnd(line, 0)
        p1 == Find(line, <<"|">>, p + 1)
        p2 == Find(line, <<"|">>, p1 + 1)
    IN  /\ p < Len(line)
        /\ Ch(line, p) = "|"
        /\ p1 # -1 /\ p1 >= p + 2
        /\ p2 # -1 /\ p2 >= p1 + 2

(***************************************************************************)
(* services/chunk_services/region_detector.py                              *)
(***************************************************************************)
RECURSIVE FormulaRegions(_, _)
FormulaRegions(t, ms) ==
    IF ms = <<>> THEN <<>>
    ELSE <<[type |-> FORMULA, start |-> ms[1].start, end |-> ms[1].end,
            content |-> Slice(t, ms[1].start, ms[1].end)]>>
         \o FormulaRegions(t, Tail(ms))

_detect_formulas(t) == FormulaRegions(t, FormulaMatches(t, 0))

TableRegion(tstart, buf) ==
    LET table_text == Join(buf, <<"\n">>)
    IN  [type |-> TABLE, start |-> tstart,
         end |-> tstart + Len(table_text), content |-> table_text]

\* the loop over lines with its locals in_table, table_buffer, table_start
RECURSIVE TableScan(_, _, _, _, _)
TableScan(t, lines, in_table, buf, tstart) ==
    IF lines = <<>>
      THEN IF in_table /\ buf # <<>> THEN <<TableRegion(tstart, buf)>> ELSE <<>>
    ELSE LET line == lines[1]
         IN  IF IsTableLine(line)
               THEN TableScan(t, Tail(lines), TRUE, Append(buf, line),
                              IF in_table THEN tstart ELSE Find(t, line, 0))
             ELSE IF in_table
               THEN <<TableRegion(tstart, buf)>>
                    \o TableScan(t, Tail(lines), FALSE, <<>>, tstart)
             ELSE TableScan(t, Tail(lines), in_table, buf, tstart)

_detect_tables(t) == TableScan(t, SplitLines(t), FALSE, <<>>, 0)

\* sorted(regions, key=lambda x: x['start']): stable
RECURSIVE InsertByStart(_, _)
InsertByStart(r, sorted) ==
    IF sorted = <<>> THEN <<r>>
    ELSE IF sorted[Len(sorted)].start <= r.start THEN Append(sorted, r)
    ELSE Append(InsertByStart(r, SubSeq(sorted, 1, Len(sorted) - 1)),
                sorted[Len(sorted)])

RECURSIVE SortByStart(_, _)
SortByStart(rs, acc) ==
    IF rs = <<>> THEN acc
    ELSE SortByStart(Tail(rs), InsertByStart(rs[1], acc))

detect_special_regions(t) ==
    SortByStart(_detect_formulas(t) \o _detect_tables(t), <<>>)

(***************************************************************************)
(* utils/text_splitter.py: HEADING_PATTERN and LIST_PATTERN (MULTILINE)    *)
(***************************************************************************)
\* ^ in MULTILINE mode
IsLineStart(t, p) == p = 0 \/ Ch(t, p - 1) = "\n"

\* \s*$ tried at index p: some amount of the whitespace run leads to an
\* end of line
TrailingWsToEol(t, p) ==
    \E e \in p..WsRunEnd(t, p) : e = Len(t) \/ Ch(t, e) = "\n"

\* end (exclusive) of the maximal run of characters of class C from index i
RunEnd(t, i, C) ==
    SetMin({k \in i..Len(t) : k = Len(t) \/ Ch(t, k) \notin C})

\* ^#{1,6}\s+.+$
MarkdownHeadingAt(t, p) ==
    LET h == RunEnd(t, p, {"#"})
        w == WsRunEnd(t, h)
    IN  /\ h - p >= 1 /\ h - p <= 6
        /\ w > h
        /\ \E q \in (h + 1)..w : q < Len(t) /\ Ch(t, q) # "\n"

\* ^([A-Z][A-Z0-9\s\-]{2,}):\s*$
CapsHeadingAt(t, p) ==
    LET r == RunEnd(t, p + 1, UPPER \cup DIGITS \cup WS \cup {"-"})
    IN  /\ p < Len(t) /\ Ch(t, p) \in UPPER
        /\ r - (p + 1) >= 2
        /\ r < Len(t) /\ Ch(t, r) = ":"
        /\ TrailingWsToEol(t, r + 1)

\* [A-Z][a-z]+(\s+[A-Z][a-z]+)* tried at index p: end of the match, or -1
RECURSIVE TitleWordsEnd(_, _)
TitleWordsEnd(t, p) ==
    IF ~(p < Len(t) /\ Ch(t, p) \in UPPER) THEN -1
    ELSE LET q == RunEnd(t, p + 1, LOWER)
             w == WsRunEnd(t, q)
             more == IF w > q THEN TitleWordsEnd(t, w) ELSE -1
         IN  IF q = p + 1 THEN -1
             ELSE IF more # -1 THEN more ELSE q

\* ^([A-Z][a-z]+(\s+[A-Z][a-z]+)*):\s*$
TitleHeadingAt(t, p) ==
    LET q == TitleWordsEnd(t, p)
    IN  /\ q # -1
        /\ q < Len(t) /\ Ch(t, q) = ":"
        /\ TrailingWsToEol(t, q + 1)

\* HEADING_PATTERN.search(content)
HeadingSearch(t) ==
    \E p \in 0..(Len(t) - 1) :
        /\ IsLineStart(t, p)
        /\ MarkdownHeadingAt(t, p) \/ CapsHeadingAt(t, p) \/ TitleHeadingAt(t, p)

Bullets == DIGITS \cup {"-", "*"}

\* LIST_PATTERN.search(content): ^\s*[\d\-\*...]\s+
ListSearch(t) ==
    \E p \in 0..(Len(t) - 1) :
        /\ IsLineStart(t, p)
        /\ LET w == WsRunEnd(t, p)
           IN  /\ w < Len(t) /\ Ch(t, w) \in Bullets
               /\ w + 1 < Len(t) /\ Ch(t, w + 1) \in WS

(***************************************************************************)
(* services/chunk_services/section_splitter.py                             *)
(***************************************************************************)
\* SectionSplitter() is built with the default formula_threshold = 0.5,
\* kept as the fraction ThresholdNum / ThresholdDen
ThresholdNum == 1
ThresholdDen == 2

\* the separator pattern \n\s*\n tried at index i: end of the match, or -1
\* (\s* is greedy and backs off to the last newline of the whitespace run)
SepEndAt(t, i) ==
    IF Ch(t, i) # "\n" THEN -1
    ELSE LET N == {k \in (i + 1)..(WsRunEnd(t, i + 1) - 1) : Ch(t, k) = "\n"}
         IN  IF N = {} THEN -1 ELSE SetMax(N) + 1

\* the non-overlapping matches of the separator pattern from index p on,
\* left to right
RECURSIVE SepMatchesFrom(_, _)
SepMatchesFrom(t, p) ==
    LET M == {i \in p..(Len(t) - 1) : SepEndAt(t, i) # -1}
    IN  IF M = {} THEN <<>>
        ELSE LET i == SetMin(M)
             IN  <<[start |-> i, end |-> SepEndAt(t, i)]>>
                 \o SepMatchesFrom(t, SepEndAt(t, i))

\* the pieces of text between the matches ms, from index p on
RECURSIVE PiecesBetween(_, _, _)
PiecesBetween(t, ms, p) ==
    IF ms = <<>> THEN <<Slice(t, p, Len(t))>>
    ELSE <<Slice(t, p, ms[1].start)>> \o PiecesBetween(t, Tail(ms), ms[1].end)

\* re.split(r'\n\s*\n', text)
Paragraphs(t) == PiecesBetween(t, SepMatchesFrom(t, 0), 0)

\* sum(min(r.end, end) - max(r.start, start) for r in rs)
RECURSIVE OverlapChars(_, _, _)
OverlapChars(rs, start, end) ==
    IF rs = <<>> THEN 0
    ELSE (IF rs[1].end < end THEN rs[1].end ELSE end)
         - (IF rs[1].start > start THEN rs[1].start ELSE start)
         + OverlapChars(Tail(rs), start, end)

\* RatioAtLeastThreshold comparing with > instead of >=
RatioAtLeastThreshold_Strict(chars, total) ==
    IF total > 0 THEN chars * ThresholdDen > ThresholdNum * total
    ELSE 0 > ThresholdNum

\* ratio >= self.formula_threshold, with ratio = chars / total (0 if total = 0)
RatioAtLeastThreshold(chars, total) ==
    IF total > 0 THEN chars * ThresholdDen >= ThresholdNum * total
    ELSE 0 >= ThresholdNum

\* PatternKind producing the reserved kind HEADER for a heading
PatternKind_Reserved(content) ==
    IF HeadingSearch(content) THEN "header"
    ELSE IF ListSearch(content) THEN LIST
    ELSE TEXT

\* no special regions: check content patterns (lines 184-193)
PatternKind(content) ==
    IF HeadingSearch(content) THEN HEADING_WITH_CONTENT
    ELSE IF ListSearch(content) THEN LIST
    ELSE TEXT

\* _classify_section consulting the table regions before the formula regions
_classify_section_TableFirst(content, rs, start, end) ==
    LET Overlaps(r) == ~(r.end <= start \/ r.start >= end)
        IsFormula(r) == r.type = FORMULA
        IsTable(r)   == r.type = TABLE
        overlapping     == SelectSeq(rs, Overlaps)
        formula_regions == SelectSeq(overlapping, IsFormula)
        table_regions   == SelectSeq(overlapping, IsTable)
    IN  IF overlapping # <<>>
          THEN IF table_regions # <<>>
                 THEN IF RatioAtLeastThreshold(
                            OverlapChars(table_regions, start, end), Len(content))
                        THEN TABLE ELSE TEXT
               ELSE IF RatioAtLeastThreshold(
                            OverlapChars(formula_regions, start, end), Len(content))
                 THEN FORMULA ELSE TEXT
        ELSE PatternKind(content)

_classify_section(content, rs, start, end) ==
    LET Overlaps(r) == ~(r.end <= start \/ r.start >= end)
        IsFormula(r) == r.type = FORMULA
        IsTable(r)   == r.type = TABLE
        overlapping     == SelectSeq(rs, Overlaps)
        formula_regions == SelectSeq(overlapping, IsFormula)
        table_regions   == SelectSeq(overlapping, IsTable)
    IN  IF overlapping # <<>>
          THEN IF formula_regions # <<>>
                 THEN IF RatioAtLeastThreshold(
                            OverlapChars(formula_regions, start, end), Len(content))
                        THEN FORMULA ELSE TEXT
               ELSE IF table_regions # <<>>
                 THEN IF RatioAtLeastThreshold(
                            OverlapChars(table_regions, start, end), Len(content))
                        THEN TABLE ELSE TEXT
               ELSE overlapping[1].type
        ELSE PatternKind(content)

\* LocateParagraph searching from the beginning of the text
LocateParagraph_FromStart(t, para, current_pos) == Find(t, para, 0)

\* LocateParagraph searching from the character after current_pos
LocateParagraph_PastPosition(t, para, current_pos) == Find(t, para, current_pos + 1)

\* position of a paragraph: text.find(para, current_pos)
LocateParagraph(t, para, current_pos) == Find(t, para, current_pos)

\* the loop over paragraphs with its local current_pos
RECURSIVE SectionLoop(_, _, _, _)
SectionLoop(t, paras, current_pos, rs) ==
    IF paras = <<>> THEN <<>>
    ELSE LET para  == paras[1]
             start == LocateParagraph(t, para, current_pos)
             end   == start + Len(para)
         IN  IF IsBlank(para) THEN SectionLoop(t, Tail(paras), current_pos, rs)
             ELSE IF start = -1 THEN SectionLoop(t, Tail(paras), current_pos, rs)
             ELSE <<[content |-> para,
                     type |-> _classify_section(para, rs, start, end),
                     start |-> start, end |-> end]>>
                  \o SectionLoop(t, Tail(paras), end, rs)

split_into_sections(t, rs) == SectionLoop(t, Paragraphs(t), 0, rs)

(***************************************************************************)
(* utils/text_splitter.py: split_sentences                                 *)
(***************************************************************************)
placeholder == <<"<","<","<","F","O","R","M","U","L","A",">",">",">">>
DOT == <<"<","D","O","T",">">>

\* keys of the abbreviations dict, in insertion order; each value is the key
\* with every period written as <DOT>
abbreviations ==
    << <<"D","r",".">>,
       <<"M","r",".">>,
       <<"M","r","s",".">>,
       <<"M","s",".">>,
       <<"P","r","o","f",".">>,
       <<"e","t","c",".">>,
       <<"i",".","e",".">>,
       <<"e",".","g",".">>,
       <<"v","s",".">>,
       <<"c","f",".">>,
       <<"F","i","g",".">>,
       <<"E","q",".">>,
       <<"N","o",".">>,
       <<"p","p",".">>,
       <<"V","o","l",".">> >>

\* Step 1: FORMULA_PATTERN.sub(replace_formula, text) from index p on
RECURSIVE HideFormulasFrom(_, _, _)
HideFormulasFrom(t, ms, p) ==
    IF ms = <<>> THEN Slice(t, p, Len(t))
    ELSE Slice(t, p, ms[1].start) \o placeholder
         \o HideFormulasFrom(t, Tail(ms), ms[1].end)

HideFormulas(t) == HideFormulasFrom(t, FormulaMatches(t, 0), 0)

\* the list `formulas` filled by replace_formula
RECURSIVE MatchTexts(_, _)
MatchTexts(t, ms) ==
    IF ms = <<>> THEN <<>>
    ELSE <<Slice(t, ms[1].start, ms[1].end)>> \o MatchTexts(t, Tail(ms))

\* Step 2: re.sub(pattern, replacement, text) for each abbreviation in order
RECURSIVE ProtectAbbreviations(_, _)
ProtectAbbreviations(t, abbrs) ==
    IF abbrs = <<>> THEN t
    ELSE ProtectAbbreviations(
             ReplaceAll(t, abbrs[1], ReplaceAll(abbrs[1], <<".">>, DOT)),
             Tail(abbrs))

\* the boundary pattern (?<=[.!?])\s+(?=[A-Z]) tried at index i: end of the
\* match, or -1
BoundaryEndAt(t, i) ==
    LET w == WsRunEnd(t, i)
    IN  IF /\ i >= 1 /\ Ch(t, i - 1) \in {".", "!", "?"}
           /\ Ch(t, i) \in WS
           /\ w < Len(t) /\ Ch(t, w) \in UPPER
        THEN w ELSE -1

\* Step 3: re.split(boundary, text) continued from index p
RECURSIVE SplitAtBoundaries(_, _)
SplitAtBoundaries(t, p) ==
    LET M == {i \in p..(Len(t) - 1) : BoundaryEndAt(t, i) # -1}
    IN  IF M = {} THEN <<Slice(t, p, Len(t))>>
        ELSE LET i == SetMin(M)
             IN  <<Slice(t, p, i)>> \o SplitAtBoundaries(t, BoundaryEndAt(t, i))

\* while placeholder in sentence and formula_idx < len(formulas): ...
RECURSIVE RestoreFormulas(_, _, _)
RestoreFormulas(sentence, formulas, formula_idx) ==
    IF Contains(sentence, placeholder) /\ formula_idx < Len(formulas)
      THEN RestoreFormulas(
               ReplaceFirst(sentence, placeholder, formulas[formula_idx + 1]),
               formulas, formula_idx + 1)
    ELSE [sentence |-> sentence, formula_idx |-> formula_idx]

\* Step 4: the loop over sentences with its local formula_idx
RECURSIVE RestoreLoop(_, _, _)
RestoreLoop(sentences, formulas, formula_idx) ==
    IF sentences = <<>> THEN <<>>
    ELSE LET r == RestoreFormulas(ReplaceAll(sentences[1], DOT, <<".">>),
                                  formulas, formula_idx)
             cleaned == Strip(r.sentence)
         IN  (IF cleaned # <<>> THEN <<cleaned>> ELSE <<>>)
             \o RestoreLoop(Tail(sentences), formulas, r.formula_idx)

split_sentences(t) ==
    IF t = <<>> \/ IsBlank(t) THEN <<>>
    ELSE RestoreLoop(
             SplitAtBoundaries(ProtectAbbreviations(HideFormulas(t), abbreviations), 0),
             MatchTexts(t, FormulaMatches(t, 0)), 0)

(***************************************************************************)
(* Metadata mappings.  A caller's metadata argument is None, a dict, or a  *)
(* truthy object that is not a mapping; a dict is a function from keys to  *)
(* values.                                                                 *)
(***************************************************************************)
EmptyMap == [k \in {} |-> ""]

\* {**m, k: v}: a new mapping
MapPut(m, k, v) == [x \in DOMAIN m \cup {k} |-> IF x = k THEN v ELSE m[x]]

\* {**metadata, ...} raises TypeError when metadata is not a mapping
MergeRaises(md) == md.kind # "dict"

(***************************************************************************)
(* services/chunk_services/chunk_processor.py                              *)
(***************************************************************************)
\* _create_chunk leaving the base metadata out
_create_chunk_TypeOnly(content, section_type, metadata, start, end, token_count) ==
    [content     |-> content,
     chunk_type  |-> section_type,
     metadata    |-> MapPut(EmptyMap, "section_type", section_type),
     start_index |-> start,
     end_index   |-> end,
     token_count |-> token_count]

_create_chunk(content, section_type, metadata, start, end, token_count) ==
    [content     |-> content,
     chunk_type  |-> section_type,
     metadata    |-> MapPut(metadata, "section_type", section_type),
     start_index |-> start,
     end_index   |-> end,
     token_count |-> token_count]

\* MustFlush letting the total pass max_chunk_size by one token
MustFlush_OneOver(buffer_size, sentence_size, sentence_buffer, max_chunk_size) ==
    buffer_size + sentence_size > max_chunk_size + 1 /\ sentence_buffer # <<>>

\* MustFlush closing the chunk already when the total reaches max_chunk_size
MustFlush_AtLimit(buffer_size, sentence_size, sentence_buffer, max_chunk_size) ==
    buffer_size + sentence_size >= max_chunk_size /\ sentence_buffer # <<>>

\* if buffer_size + sentence_size > self.max_chunk_size and sentence_buffer
MustFlush(buffer_size, sentence_size, sentence_buffer, max_chunk_size) ==
    buffer_size + sentence_size > max_chunk_size /\ sentence_buffer # <<>>

\* the locals sentence_buffer and buffer_size of the packing loop each time a
\* chunk is created from them (lines 87-88, 94-96, 105, 109-114, 117-118, 125)
RECURSIVE PackBuffers(_, _, _, _)
PackBuffers(sentences, sentence_buffer, buffer_size, max_chunk_size) ==
    IF sentences = <<>>
      THEN IF sentence_buffer # <<>>
             THEN <<[sentence_buffer |-> sentence_buffer, buffer_size |-> buffer_size]>>
           ELSE <<>>
    ELSE LET sentence      == sentences[1]
             sentence_size == rough_token_count(sentence)
         IN  IF MustFlush(buffer_size, sentence_size, sentence_buffer, max_chunk_size)
               THEN <<[sentence_buffer |-> sentence_buffer, buffer_size |-> buffer_size]>>
                    \o PackBuffers(Tail(sentences), <<sentence>>, sentence_size,
                                   max_chunk_size)
             ELSE PackBuffers(Tail(sentences), Append(sentence_buffer, sentence),
                              buffer_size + sentence_size, max_chunk_size)

\* LastChunkEnd recomputed from the content length, as for the other chunks
LastChunkEnd_FromLength(section, chunk_start, chunk_text) ==
    chunk_start + Len(chunk_text)

\* LastChunkEnd taking the section's start for its end
LastChunkEnd_SectionStart(section, chunk_start, chunk_text) == section.start

\* end of the chunk flushed after the loop
LastChunkEnd(section, chunk_start, chunk_text) == section.end

\* the packing loop with its locals sentence_buffer, buffer_size, chunk_start,
\* followed by the flush of the remaining sentences
RECURSIVE PackLoop(_, _, _, _, _, _, _)
PackLoop(sentences, sentence_buffer, buffer_size, chunk_start, section, metadata, max_chunk_size) ==
    IF sentences = <<>>
      THEN IF sentence_buffer # <<>>
             THEN LET chunk_text == Join(sentence_buffer, <<" ">>)
                  IN  <<_create_chunk(chunk_text, section.type, metadata,
                                      chunk_start,
                                      LastChunkEnd(section, chunk_start, chunk_text),
                                      buffer_size)>>
           ELSE <<>>
    ELSE LET sentence      == sentences[1]
             sentence_size == rough_token_count(sentence)
         IN  IF MustFlush(buffer_size, sentence_size, sentence_buffer, max_chunk_size)
               THEN LET chunk_text == Join(sentence_buffer, <<" ">>)
                        chunk_end  == chunk_start + Len(chunk_text)
                    IN  <<_create_chunk(chunk_text, section.type, metadata,
                                        chunk_start, chunk_end, buffer_size)>>
                        \o PackLoop(Tail(sentences), <<sentence>>, sentence_size,
                                    chunk_end, section, metadata, max_chunk_size)
             ELSE PackLoop(Tail(sentences), Append(sentence_buffer, sentence),
                           buffer_size + sentence_size, chunk_start,
                           section, metadata, max_chunk_size)

\* section[key] raises KeyError
KeyMissing(section, key) == key \notin DOMAIN section

\* section.get(key, default)
SectionGet(section, key, default) ==
    IF key \in DOMAIN section THEN section[key] ELSE default

\* the chunk built by the except handlers (lines 57-64 and 133-140): the
\* section as it is, tagged with the error
RecoveryChunk(section, metadata, error) ==
    _create_chunk(section.content, section.type,
                  MapPut(metadata, "error", error),
                  SectionGet(section, "start", 0),
                  SectionGet(section, "end", Len(section.content)),
                  rough_token_count(section.content))

\* the try body of _split_large_section raises: section['start'] (line 81 or
\* 89) or section['end'] (line 82, or line 124 for the buffer that is never
\* empty after the loop) is missing
SplitRaises(section) ==
    KeyMissing(section, "start") \/ KeyMissing(section, "end")

_split_large_section(section, metadata, max_chunk_size) ==
    LET sentences == split_sentences(section.content)
    IN  IF SplitRaises(section)
          THEN <<RecoveryChunk(section, metadata, "split_failed")>>
        ELSE IF sentences = <<>>
          THEN <<_create_chunk(section.content, section.type, metadata,
                               section.start, section.end,
                               rough_token_count(section.content))>>
        ELSE PackLoop(sentences, <<>>, 0, section.start,
                      section, metadata, max_chunk_size)

\* ProcessSectionChunks splitting every section into sentences
ProcessSectionChunks_AlwaysSplit(section, metadata, max_chunk_size) ==
    _split_large_section(section, metadata, max_chunk_size)

\* process_section for a mapping base_metadata
ProcessSectionChunks(section, metadata, max_chunk_size) ==
    LET token_count == rough_token_count(section.content)
    IN  IF token_count <= max_chunk_size
          THEN IF KeyMissing(section, "start") \/ KeyMissing(section, "end")
                 THEN <<RecoveryChunk(section, metadata, "processing_failed")>>
               ELSE <<_create_chunk(section.content, section.type, metadata,
                                    section.start, section.end, token_count)>>
        ELSE _split_large_section(section, metadata, max_chunk_size)

\* process_section: every path builds a chunk with {**metadata, ...}; when
\* base_metadata is not a mapping that raises TypeError, and the recovery
\* handlers (lines 57-64 and 133-140) merge the same object and raise it
\* again, so the TypeError leaves process_section
process_section(section, base_metadata, max_chunk_size) ==
    IF MergeRaises(base_metadata)
      THEN [raised |-> "TypeError", chunks |-> <<>>]
    ELSE [raised |-> "",
          chunks |-> ProcessSectionChunks(section, base_metadata.map, max_chunk_size)]

(***************************************************************************)
(* services/chunk_services/overlap_handler.py                              *)
(***************************************************************************)
\* _extract_overlap handing back the whole neighbouring text
_extract_overlap_Unbounded(t, from_end, overlap_size) == t

_extract_overlap(t, from_end, overlap_size) ==
    LET overlap_chars == overlap_size * 4
    IN  IF from_end
          THEN LET overlap == Slice(t, IF overlap_chars > 0 /\ Len(t) > overlap_chars
                                         THEN Len(t) - overlap_chars ELSE 0, Len(t))
                   last_period == RFind(overlap, <<".">>)
               IN  IF last_period > Len(overlap) \div 2
                     THEN Strip(Slice(overlap, last_period + 1, Len(overlap)))
                   ELSE overlap
        ELSE LET overlap == Slice(t, 0, overlap_chars)
                 first_period == Find(overlap, <<".">>, 0)
             IN  IF 0 < first_period /\ first_period < Len(overlap) \div 2
                   THEN Strip(Slice(overlap, 0, first_period + 1))
                 ELSE overlap

\* OverlapTokens carrying the input chunk's token_count over
OverlapTokens_Kept(chunk, content) == chunk.token_count

\* token_count=rough_token_count(content) of the appended chunk (line 66)
OverlapTokens(chunk, content) == rough_token_count(content)

\* OverlapChunk recomputing the end from the new content
OverlapChunk_EndFromContent(cs, i, overlap_size) ==
    LET chunk == cs[i]
        prev  == IF i > 1 THEN _extract_overlap(cs[i - 1].content, TRUE, overlap_size)
                 ELSE <<>>
        c1 == IF prev # <<>>
                THEN <<"[", ".", ".", ".">> \o prev \o <<"]", " ">> \o chunk.content
              ELSE chunk.content
    IN  [content     |-> c1,
         chunk_type  |-> chunk.chunk_type,
         metadata    |-> chunk.metadata,
         start_index |-> chunk.start_index,
         end_index   |-> chunk.start_index + Len(c1),
         token_count |-> rough_token_count(c1)]

\* one iteration of the loop: the chunk appended to result for chunks[i]
OverlapChunk(cs, i, overlap_size) ==
    LET chunk == cs[i]
        prev  == IF i > 1 THEN _extract_overlap(cs[i - 1].content, TRUE, overlap_size)
                 ELSE <<>>
        next  == IF i < Len(cs)
                   THEN _extract_overlap(cs[i + 1].content, FALSE, overlap_size)
                 ELSE <<>>
        c1 == IF prev # <<>>
                THEN <<"[", ".", ".", ".">> \o prev \o <<"]", " ">> \o chunk.content
              ELSE chunk.content
        m1 == IF prev # <<>>
                THEN MapPut(chunk.metadata, "has_previous_overlap", "True")
              ELSE chunk.metadata
        c2 == IF next # <<>>
                THEN c1 \o <<" ", "[">> \o next \o <<".", ".", ".", "]">>
              ELSE c1
        m2 == IF next # <<>> THEN MapPut(m1, "has_next_overlap", "True") ELSE m1
    IN  [content     |-> c2,
         chunk_type  |-> chunk.chunk_type,
         metadata    |-> m2,
         start_index |-> chunk.start_index,
         end_index   |-> chunk.end_index,
         token_count |-> OverlapTokens(chunk, c2)]

\* add_overlap without the early return
add_overlap_NoEarlyReturn(cs, overlap_size) ==
    [i \in 1..Len(cs) |-> OverlapChunk(cs, i, overlap_size)]

add_overlap(cs, overlap_size) ==
    IF Len(cs) <= 1 \/ overlap_size = 0 THEN cs
    ELSE [i \in 1..Len(cs) |-> OverlapChunk(cs, i, overlap_size)]

\* MetadataCopy binding the chunk's own dict instead of a copy
MetadataCopy_Alias(own, fresh) == own

\* metadata = chunk.metadata.copy(): the local refers to a new dict object
MetadataCopy(own, fresh) == fresh

\* the dict objects after add_overlap(cs): d.heap maps an object id to the
\* dict's content, d.input_ids[i] is the dict of cs[i]; iteration i assigns
\* the flags into the dict its local `metadata` refers to, and the chunk
\* appended to result refers to that dict; the early return hands back the
\* list it was given
OverlapDicts(cs, d, overlap_size) ==
    IF Len(cs) <= 1 \/ overlap_size = 0
      THEN [d EXCEPT !.output_ids = d.input_ids]
    ELSE LET n == Len(cs)
             ref(i) == MetadataCopy(d.input_ids[i], n + i)
             ids == (1..n) \cup {ref(i) : i \in 1..n}
             writers(id) == {i \in 1..n : ref(i) = id}
         IN  [heap |-> [id \in ids |->
                          IF writers(id) # {}
                            THEN OverlapChunk(cs, SetMax(writers(id)),
                                              overlap_size).metadata
                          ELSE d.heap[id]],
              input_ids  |-> d.input_ids,
              output_ids |-> [i \in 1..n |-> ref(i)]]

\* chunk sequence cs seen through the dict objects ids refers to
WithDicts(cs, heap, ids) ==
    [i \in 1..Len(cs) |-> [cs[i] EXCEPT !.metadata = heap[ids[i]]]]

(***************************************************************************)
(* services/chunk_services/validators.py                                   *)
(***************************************************************************)
\* validate_text_raises without the isinstance check
validate_text_raises_NoneOnly(text) == text.kind = "none"

\* validate_text raises InvalidInputError
validate_text_raises(text) == text.kind = "none" \/ text.kind # "str"

\* validate_config_raises treating overlap_size >= max_chunk_size as fatal
validate_config_raises_OverlapFatal(max_chunk_size, min_chunk_size, overlap_size) ==
    \/ max_chunk_size <= 0
    \/ min_chunk_size < 0
    \/ min_chunk_size > max_chunk_size
    \/ overlap_size < 0
    \/ overlap_size >= max_chunk_size

\* validate_config raises ValueError
validate_config_raises(max_chunk_size, min_chunk_size, overlap_size) ==
    \/ max_chunk_size <= 0
    \/ min_chunk_size < 0
    \/ min_chunk_size > max_chunk_size
    \/ overlap_size < 0

\* validate_config logs the overlap warning
validate_config_warns(max_chunk_size, min_chunk_size, overlap_size) ==
    /\ ~validate_config_raises(max_chunk_size, min_chunk_size, overlap_size)
    /\ overlap_size >= max_chunk_size

(***************************************************************************)
(* Inputs.                                                                 *)
(***************************************************************************)
Calls == {1}

TextParts ==
    { <<"A","a","a","."," ">>,      \* a sentence of one token
      <<"B","."," ">>,              \* a sentence of zero tokens
      <<"\n", "\n">>,            \* a paragraph boundary
      <<"\n">>,
      <<" ">>,
      <<"$">>,
      <<"|","a","|","b","|">> }     \* a table row

RECURSIVE TextsUpTo(_)
TextsUpTo(n) ==
    IF n = 0 THEN {<<>>}
    ELSE LET prev == TextsUpTo(n - 1)
         IN  prev \cup {t \o q : t \in prev, q \in TextParts}

\* the concatenations of at most n parts of P
RECURSIVE TextsOver(_, _)
TextsOver(P, n) ==
    IF n = 0 THEN {<<>>}
    ELSE LET prev == TextsOver(P, n - 1)
         IN  prev \cup {t \o q : t \in prev, q \in P}

\* parts of the documents that exercise region detection and classification
SectionParts ==
    { <<"$">>, <<"x">>, <<"x","x">>, <<"\n">>, <<"|","a","|","b","|">> }

SectionTexts == {t \in TextsOver(SectionParts, MaxSectionParts) : ~IsBlank(t)}

TextArgs ==
    {[kind |-> "none", val |-> <<>>], [kind |-> "int", val |-> <<>>]}
    \cup {[kind |-> "str", val |-> t] : t \in TextsUpTo(MaxParts)}

MetadataArgs ==
    { [kind |-> "none", map |-> EmptyMap],
      [kind |-> "dict", map |-> [doc |-> "d1"]],
      [kind |-> "dict", map |-> [doc |-> "d2", section_type |-> "caller",
                                 has_previous_overlap |-> "caller"]],
      [kind |-> "nonmapping", map |-> EmptyMap] }

\* parts of the texts given to split_sentences alone: a formula delimiter, a
\* letter, a blank, a sentence end, a capital, an abbreviation, and the text
\* of the formula placeholder itself
SentenceParts ==
    { <<"$">>, <<"x">>, <<" ">>, <<".", " ">>, <<"A">>, <<"D","r",".">>,
      placeholder }

SentenceArgs ==
    {[kind |-> "none", val |-> <<>>], [kind |-> "int", val |-> <<>>]}
    \cup {[kind |-> "str", val |-> t] : t \in TextsOver(SentenceParts, MaxSentenceParts)}

\* contents of the chunks given to add_overlap alone: a sentence ending in a
\* period, a text with a period in its first half, a short text, a blank
\* and the empty string
OverlapContents ==
    { <<"A","a","a",".">>, <<"B","."," ","C","c","c","c">>, <<"x","y">>,
      <<" ">>, <<>> }

\* the chunk sequence with the contents cts, laid out end to start
ChunksOf(cts) ==
    [i \in 1..Len(cts) |->
        LET start == Len(Join(SubSeq(cts, 1, i - 1), <<>>))
        IN  _create_chunk(cts[i], TEXT, MapPut(EmptyMap, "doc", "d1"),
                          start, start + Len(cts[i]), rough_token_count(cts[i]))]

OverlapInputs ==
    {ChunksOf(cts) : cts \in UNION {[1..n -> OverlapContents] : n \in 0..MaxOverlapChunks}}

\* parts of the documents with headings and lists: a formula delimiter,
\* letters, a paragraph boundary, a line end, a table row, a markdown heading
\* and a list item
DocumentParts ==
    { <<"$">>, <<"x","x">>, <<"\n","\n">>, <<"\n">>, <<"|","a","|","b","|">>,
      <<"#"," ","h">>, <<"-"," ","i">> }

DocumentTexts == TextsOver(DocumentParts, MaxDocumentParts)

\* parts of the contents of the sections given to process_section alone:
\* sentences of one, zero and two tokens, a letter and a blank
ProcessParts ==
    { <<"A","a","a","."," ">>, <<"B","."," ">>,
      <<"C","c","c","c","c","c","c","c","."," ">>, <<"x">>, <<" ">> }

\* offset at which such a section starts in its document
ProcessStart == 3

\* the section dicts given to process_section alone: the dict the Section
\* Splitter builds for a content, and that dict with the key 'start' or the
\* key 'end' left out
SectionDicts(content, type, start) ==
    LET full == [content |-> content, type |-> type,
                 start |-> start, end |-> start + Len(content)]
    IN  { full,
          [content |-> content, type |-> type, end |-> start + Len(content)],
          [content |-> content, type |-> type, start |-> start] }

ProcessSections ==
    UNION {SectionDicts(t, ty, ProcessStart) :
               t \in TextsOver(ProcessParts, MaxProcessParts) \ {<<>>},
               ty \in {TEXT, LIST}}

\* the base_metadata arguments of process_section alone
ProcessMetadata ==
    { [kind |-> "dict", map |-> [doc |-> "d1"]],
      [kind |-> "nonmapping", map |-> EmptyMap] }

\* no metadata dict object is tracked
NoDicts == [heap |-> <<>>, input_ids |-> <<>>, output_ids |-> <<>>]

NoInput == [text |-> [kind |-> "none", val |-> <<>>],
            metadata |-> [kind |-> "none", map |-> EmptyMap]]

(***************************************************************************)
(* services/chunk_services/chunker.py: AcademicChunker.__init__            *)
(***************************************************************************)
NoChunker == [state |-> "none", max_chunk_size |-> 0, min_chunk_size |-> 0,
              overlap_size |-> 0, warned |-> FALSE]

NewChunker(max_chunk_size, min_chunk_size, overlap_size) ==
    [state |-> IF validate_config_raises(max_chunk_size, min_chunk_size, overlap_size)
                 THEN "ValueError" ELSE "ready",
     max_chunk_size |-> max_chunk_size,
     min_chunk_size |-> min_chunk_size,
     overlap_size   |-> overlap_size,
     warned |-> validate_config_warns(max_chunk_size, min_chunk_size, overlap_size)]

CfgRange == (0 - CfgSpan)..CfgSpan

Construct(max_chunk_size, min_chunk_size, overlap_size) ==
    /\ chunker.state = "none"
    /\ chunker' = NewChunker(max_chunk_size, min_chunk_size, overlap_size)
    /\ UNCHANGED <<dicts, split_result, pc, input, meta, stages, regions, sections, sec_i,
                   section_chunks, chunks, final_chunks, outcome>>

(***************************************************************************)
(* services/chunk_services/chunker.py: AcademicChunker.chunk_document      *)
(***************************************************************************)
StageOrder == <<"VALIDATE", "DETECT_REGIONS", "SPLIT_SECTIONS",
                "PROCESS_SECTIONS", "ADD_OVERLAP", "RETURN">>

Pending == [kind |-> "pending", value |-> <<>>, error |-> "", cause |-> ""]
Returned(cs) == [kind |-> "returned", value |-> cs, error |-> "", cause |-> ""]
Raised(error, cause) ==
    [kind |-> "raised", value |-> <<>>, error |-> error, cause |-> cause]

\* WrapError letting the original exception through
WrapError_Reraise(cause, partial) == Raised(cause, "")

\* except Exception as e: raise ProcessingError(...) from e
WrapError(cause, partial) == Raised("ProcessingError", cause)

\* a caller invokes chunker.chunk_document(text, metadata)
Call(c) ==
    /\ chunker.state = "ready"
    /\ pc[c] = "idle"
    /\ \E text \in TextArgs, md \in MetadataArgs :
           input' = [input EXCEPT ![c] = [text |-> text, metadata |-> md]]
    /\ pc' = [pc EXCEPT ![c] = "validate"]
    /\ stages' = [stages EXCEPT ![c] = <<"VALIDATE">>]
    /\ UNCHANGED <<chunker, dicts, split_result, meta, regions, sections, sec_i, section_chunks, chunks,
                   final_chunks, outcome>>

\* self.validator.validate_text(text)
ValidateText(c) ==
    /\ pc[c] = "validate"
    /\ IF validate_text_raises(input[c].text)
         THEN /\ pc' = [pc EXCEPT ![c] = "done"]
              /\ outcome' = [outcome EXCEPT ![c] = Raised("InvalidInputError", "")]
         ELSE /\ pc' = [pc EXCEPT ![c] = "check_empty"]
              /\ UNCHANGED outcome
    /\ UNCHANGED <<chunker, dicts, split_result, input, meta, stages, regions, sections, sec_i,
                   section_chunks, chunks, final_chunks>>

\* IsEmptyText testing `not text` instead of `not text.strip()`
IsEmptyText_NoStrip(text) == text.val = <<>>

\* not text.strip(); on a non-string this raises AttributeError
IsEmptyText(text) == Strip(text.val) = <<>>

\* if not text.strip(): return [] ; metadata = metadata or {}
CheckEmpty(c) ==
    /\ pc[c] = "check_empty"
    /\ IF input[c].text.kind # "str"
         THEN /\ pc' = [pc EXCEPT ![c] = "done"]
              /\ outcome' = [outcome EXCEPT ![c] = Raised("AttributeError", "")]
              /\ UNCHANGED <<stages, meta>>
         ELSE IF IsEmptyText(input[c].text)
         THEN /\ pc' = [pc EXCEPT ![c] = "done"]
              /\ outcome' = [outcome EXCEPT ![c] = Returned(<<>>)]
              /\ stages' = [stages EXCEPT ![c] = Append(@, "RETURN")]
              /\ UNCHANGED meta
         ELSE /\ pc' = [pc EXCEPT ![c] = "detect_regions"]
              /\ meta' = [meta EXCEPT ![c] =
                     IF input[c].metadata.kind = "none"
                       THEN [kind |-> "dict", map |-> EmptyMap]
                     ELSE input[c].metadata]
              /\ stages' = [stages EXCEPT ![c] = Append(@, "DETECT_REGIONS")]
              /\ UNCHANGED outcome
    /\ UNCHANGED <<chunker, dicts, split_result, input, regions, sections, sec_i, section_chunks, chunks, final_chunks>>

\* Step 1: regions = self.region_detector.detect_special_regions(text)
DetectRegions(c) ==
    /\ pc[c] = "detect_regions"
    /\ regions' = [regions EXCEPT ![c] = detect_special_regions(input[c].text.val)]
    /\ pc' = [pc EXCEPT ![c] = "split_sections"]
    /\ stages' = [stages EXCEPT ![c] = Append(@, "SPLIT_SECTIONS")]
    /\ UNCHANGED <<chunker, dicts, split_result, input, meta, sections, sec_i, section_chunks, chunks,
                   final_chunks, outcome>>

\* SplitSections keeping the sections in an attribute of the shared splitter
SplitSections_Shared(c) ==
    /\ pc[c] = "split_sections"
    /\ sections' = [x \in DOMAIN sections |->
                        split_into_sections(input[c].text.val, regions[c])]
    /\ chunks' = [chunks EXCEPT ![c] = <<>>]
    /\ sec_i' = [sec_i EXCEPT ![c] = 1]
    /\ pc' = [pc EXCEPT ![c] = "process_sections"]
    /\ stages' = [stages EXCEPT ![c] = Append(@, "PROCESS_SECTIONS")]
    /\ UNCHANGED <<chunker, dicts, split_result, input, meta, regions, section_chunks, final_chunks,
                   outcome>>

\* Step 2: sections = self.section_splitter.split_into_sections(text, regions);
\* chunks = []
SplitSections(c) ==
    /\ pc[c] = "split_sections"
    /\ sections' = [sections EXCEPT ![c] =
                        split_into_sections(input[c].text.val, regions[c])]
    /\ chunks' = [chunks EXCEPT ![c] = <<>>]
    /\ sec_i' = [sec_i EXCEPT ![c] = 1]
    /\ pc' = [pc EXCEPT ![c] = "process_sections"]
    /\ stages' = [stages EXCEPT ![c] = Append(@, "PROCESS_SECTIONS")]
    /\ UNCHANGED <<chunker, dicts, split_result, input, meta, regions, section_chunks, final_chunks,
                   outcome>>

\* Step 3, one iteration of `for section in sections`
ProcessSection(c) ==
    /\ pc[c] = "process_sections"
    /\ sec_i[c] <= Len(sections[c])
    /\ LET r == process_section(sections[c][sec_i[c]], meta[c],
                                chunker.max_chunk_size)
       IN  IF r.raised # ""
             THEN /\ pc' = [pc EXCEPT ![c] = "done"]
                  /\ outcome' = [outcome EXCEPT ![c] = WrapError(r.raised, chunks[c])]
                  /\ UNCHANGED <<section_chunks, chunks, sec_i>>
           ELSE /\ section_chunks' = [section_chunks EXCEPT ![c] = r.chunks]
                /\ chunks' = [chunks EXCEPT ![c] = @ \o r.chunks]
                /\ sec_i' = [sec_i EXCEPT ![c] = @ + 1]
                /\ UNCHANGED <<pc, outcome>>
    /\ UNCHANGED <<chunker, dicts, split_result, input, meta, stages, regions, sections, final_chunks>>

\* LoopDone with the loop left one iteration early
LoopDone_OffByOne(next_i, secs) == next_i >= Len(secs)

\* the for loop has no section left
LoopDone(next_i, secs) == next_i > Len(secs)

\* the loop ends; line 123
FinishSections(c) ==
    /\ pc[c] = "process_sections"
    /\ LoopDone(sec_i[c], sections[c])
    /\ pc' = [pc EXCEPT ![c] = "add_overlap"]
    /\ stages' = [stages EXCEPT ![c] = Append(@, "ADD_OVERLAP")]
    /\ UNCHANGED <<chunker, dicts, split_result, input, meta, regions, sections, sec_i, section_chunks, chunks,
                   final_chunks, outcome>>

\* Step 4: final_chunks = self.overlap_handler.add_overlap(chunks)
AddOverlap(c) ==
    /\ pc[c] = "add_overlap"
    /\ final_chunks' = [final_chunks EXCEPT ![c] =
                            add_overlap(chunks[c], chunker.overlap_size)]
    /\ pc' = [pc EXCEPT ![c] = "return"]
    /\ stages' = [stages EXCEPT ![c] = Append(@, "RETURN")]
    /\ UNCHANGED <<chunker, dicts, split_result, input, meta, regions, sections, sec_i, section_chunks, chunks, outcome>>

\* logger.info(... / len(final_chunks) ...); return final_chunks
Return(c) ==
    /\ pc[c] = "return"
    /\ pc' = [pc EXCEPT ![c] = "done"]
    /\ outcome' = [outcome EXCEPT ![c] =
                       IF Len(final_chunks[c]) = 0
                         THEN WrapError("ZeroDivisionError", final_chunks[c])
                       ELSE Returned(final_chunks[c])]
    /\ UNCHANGED <<chunker, dicts, split_result, input, meta, stages, regions, sections, sec_i,
                   section_chunks, chunks, final_chunks>>

\* a caller invokes split_sentences(text) directly
SentencesCall(c) ==
    /\ pc[c] = "sentences_args"
    /\ IF input[c].text.kind # "str"
         THEN /\ outcome' = [outcome EXCEPT ![c] = Raised("TypeError", "")]
              /\ UNCHANGED split_result
         ELSE /\ split_result' = [split_result EXCEPT ![c] =
                                      split_sentences(input[c].text.val)]
              /\ outcome' = [outcome EXCEPT ![c] = Returned(<<>>)]
    /\ pc' = [pc EXCEPT ![c] = "sentences_returned"]
    /\ UNCHANGED <<chunker, dicts, input, meta, stages, regions, sections, sec_i,
                   section_chunks, chunks, final_chunks>>

\* process_section reaches line 73, sentences = split_sentences(...)
SplitInvoked(section, max_chunk_size) ==
    rough_token_count(section.content) > max_chunk_size

\* a caller invokes chunk_processor.process_section(section, base_metadata)
\* directly
ProcessCall(c) ==
    /\ pc[c] = "process_args"
    /\ LET section == sections[c][1]
           r == process_section(section, meta[c], chunker.max_chunk_size)
       IN  /\ split_result' = [split_result EXCEPT ![c] =
                   IF SplitInvoked(section, chunker.max_chunk_size)
                     THEN split_sentences(section.content) ELSE @]
           /\ IF r.raised # ""
                THEN /\ outcome' = [outcome EXCEPT ![c] = Raised(r.raised, "")]
                     /\ UNCHANGED section_chunks
              ELSE /\ section_chunks' = [section_chunks EXCEPT ![c] = r.chunks]
                   /\ outcome' = [outcome EXCEPT ![c] = Returned(r.chunks)]
    /\ pc' = [pc EXCEPT ![c] = "process_returned"]
    /\ UNCHANGED <<chunker, dicts, input, meta, stages, regions, sections, sec_i,
                   chunks, final_chunks>>

\* a caller invokes overlap_handler.add_overlap(chunks) directly
OverlapCall(c) ==
    /\ pc[c] = "overlap_args"
    /\ LET d == OverlapDicts(chunks[c], dicts[c], chunker.overlap_size)
       IN  /\ dicts' = [dicts EXCEPT ![c] = d]
           /\ chunks' = [chunks EXCEPT ![c] =
                             WithDicts(chunks[c], d.heap, d.input_ids)]
           /\ final_chunks' = [final_chunks EXCEPT ![c] =
                   WithDicts(add_overlap(chunks[c], chunker.overlap_size),
                             d.heap, d.output_ids)]
    /\ pc' = [pc EXCEPT ![c] = "overlap_returned"]
    /\ UNCHANGED <<chunker, split_result, input, meta, stages, regions, sections,
                   sec_i, section_chunks, outcome>>

(***************************************************************************)
(* Specifications.                                                         *)
(***************************************************************************)
IdleCalls ==
    /\ pc = [c \in Calls |-> "idle"]
    /\ input = [c \in Calls |-> NoInput]
    /\ meta = [c \in Calls |-> [kind |-> "dict", map |-> EmptyMap]]
    /\ stages = [c \in Calls |-> <<>>]
    /\ regions = [c \in Calls |-> <<>>]
    /\ sections = [c \in Calls |-> <<>>]
    /\ sec_i = [c \in Calls |-> 1]
    /\ section_chunks = [c \in Calls |-> <<>>]
    /\ chunks = [c \in Calls |-> <<>>]
    /\ final_chunks = [c \in Calls |-> <<>>]
    /\ outcome = [c \in Calls |-> Pending]
    /\ dicts = [c \in Calls |-> NoDicts]
    /\ split_result = [c \in Calls |-> <<>>]

\* a chunker constructed with a configuration that validate_config accepts
ReadyChunkers ==
    {NewChunker(mx, 0, ov) : mx \in 1..MaxChunkCfg, ov \in 0..MaxOverlapCfg}

Init ==
    /\ chunker \in ReadyChunkers
    /\ IdleCalls

Next ==
    \E c \in Calls :
        \/ Call(c)
        \/ ValidateText(c)
        \/ CheckEmpty(c)
        \/ DetectRegions(c)
        \/ SplitSections(c)
        \/ ProcessSection(c)
        \/ FinishSections(c)
        \/ AddOverlap(c)
        \/ Return(c)

Spec == Init /\ [][Next]_vars

\* construction of a chunker from arbitrary integer arguments
InitConfig ==
    /\ chunker = NoChunker
    /\ IdleCalls

NextConfig ==
    \E mx \in CfgRange, mn \in CfgRange, ov \in CfgRange : Construct(mx, mn, ov)

SpecConfig == InitConfig /\ [][NextConfig]_vars

\* a call that has passed validation and the empty-text check on a document
\* of SectionTexts, followed through region detection and section splitting
InitSections ==
    /\ chunker = NewChunker(MaxChunkCfg, 0, 0)
    /\ \E t \in SectionTexts :
           input = [c \in Calls |->
                       [text |-> [kind |-> "str", val |-> t],
                        metadata |-> [kind |-> "none", map |-> EmptyMap]]]
    /\ pc = [c \in Calls |-> "detect_regions"]
    /\ meta = [c \in Calls |-> [kind |-> "dict", map |-> EmptyMap]]
    /\ stages = [c \in Calls |-> <<"VALIDATE", "DETECT_REGIONS">>]
    /\ regions = [c \in Calls |-> <<>>]
    /\ sections = [c \in Calls |-> <<>>]
    /\ sec_i = [c \in Calls |-> 1]
    /\ section_chunks = [c \in Calls |-> <<>>]
    /\ chunks = [c \in Calls |-> <<>>]
    /\ final_chunks = [c \in Calls |-> <<>>]
    /\ outcome = [c \in Calls |-> Pending]
    /\ dicts = [c \in Calls |-> NoDicts]
    /\ split_result = [c \in Calls |-> <<>>]

\* a direct call of add_overlap on a chunk sequence of OverlapInputs, each
\* chunk with a metadata dict of its own
InitOverlap ==
    /\ chunker \in ReadyChunkers
    /\ \E cs \in OverlapInputs :
           /\ chunks = [c \in Calls |-> cs]
           /\ dicts = [c \in Calls |->
                          [heap |-> [i \in 1..Len(cs) |-> cs[i].metadata],
                           input_ids |-> [i \in 1..Len(cs) |-> i],
                           output_ids |-> <<>>]]
    /\ pc = [c \in Calls |-> "overlap_args"]
    /\ input = [c \in Calls |-> NoInput]
    /\ meta = [c \in Calls |-> [kind |-> "dict", map |-> EmptyMap]]
    /\ stages = [c \in Calls |-> <<>>]
    /\ regions = [c \in Calls |-> <<>>]
    /\ sections = [c \in Calls |-> <<>>]
    /\ sec_i = [c \in Calls |-> 1]
    /\ section_chunks = [c \in Calls |-> <<>>]
    /\ final_chunks = [c \in Calls |-> <<>>]
    /\ outcome = [c \in Calls |-> Pending]
    /\ split_result = [c \in Calls |-> <<>>]

NextOverlap == \E c \in Calls : OverlapCall(c)

SpecOverlap == InitOverlap /\ [][NextOverlap]_vars

\* a direct call of split_sentences on an argument of SentenceArgs
InitSentences ==
    /\ chunker = NoChunker
    /\ \E text \in SentenceArgs :
           input = [c \in Calls |->
                       [text |-> text,
                        metadata |-> [kind |-> "none", map |-> EmptyMap]]]
    /\ pc = [c \in Calls |-> "sentences_args"]
    /\ meta = [c \in Calls |-> [kind |-> "dict", map |-> EmptyMap]]
    /\ stages = [c \in Calls |-> <<>>]
    /\ regions = [c \in Calls |-> <<>>]
    /\ sections = [c \in Calls |-> <<>>]
    /\ sec_i = [c \in Calls |-> 1]
    /\ section_chunks = [c \in Calls |-> <<>>]
    /\ chunks = [c \in Calls |-> <<>>]
    /\ final_chunks = [c \in Calls |-> <<>>]
    /\ outcome = [c \in Calls |-> Pending]
    /\ dicts = [c \in Calls |-> NoDicts]
    /\ split_result = [c \in Calls |-> <<>>]

NextSentences == \E c \in Calls : SentencesCall(c)

SpecSentences == InitSentences /\ [][NextSentences]_vars

\* a call of chunk_document on a document of DocumentTexts with metadata
\* None, before its first stage
InitDocuments ==
    /\ chunker = NewChunker(MaxChunkCfg, 0, MaxOverlapCfg)
    /\ \E t \in DocumentTexts :
           input = [c \in Calls |->
                       [text |-> [kind |-> "str", val |-> t],
                        metadata |-> [kind |-> "none", map |-> EmptyMap]]]
    /\ pc = [c \in Calls |-> "validate"]
    /\ meta = [c \in Calls |-> [kind |-> "dict", map |-> EmptyMap]]
    /\ stages = [c \in Calls |-> <<"VALIDATE">>]
    /\ regions = [c \in Calls |-> <<>>]
    /\ sections = [c \in Calls |-> <<>>]
    /\ sec_i = [c \in Calls |-> 1]
    /\ section_chunks = [c \in Calls |-> <<>>]
    /\ chunks = [c \in Calls |-> <<>>]
    /\ final_chunks = [c \in Calls |-> <<>>]
    /\ outcome = [c \in Calls |-> Pending]
    /\ dicts = [c \in Calls |-> NoDicts]
    /\ split_result = [c \in Calls |-> <<>>]

NextDocuments ==
    \E c \in Calls :
        \/ ValidateText(c)
        \/ CheckEmpty(c)
        \/ DetectRegions(c)
        \/ SplitSections(c)
        \/ ProcessSection(c)
        \/ FinishSections(c)
        \/ AddOverlap(c)
        \/ Return(c)

SpecDocuments == InitDocuments /\ [][NextDocuments]_vars

\* the calls in flight on one chunker
ConcurrentCalls == 1..MaxCalls

\* the arguments of the concurrent calls: a text whose section is packed into
\* several chunks, a text with a plain paragraph and a table, a text with a
\* formula; metadata None or a dict
ConcurrentInputs ==
    { [text |-> [kind |-> "str",
                 val |-> <<"A","a","a","."," ","A","a","a","."," ","B","."," ">>],
       metadata |-> [kind |-> "dict", map |-> [doc |-> "d1"]]],
      [text |-> [kind |-> "str",
                 val |-> <<"x","\n","\n","|","a","|","b","|","\n","|","a","|","b","|">>],
       metadata |-> [kind |-> "none", map |-> EmptyMap]],
      [text |-> [kind |-> "str",
                 val |-> <<"$","x","x","$"," ","y">>],
       metadata |-> [kind |-> "dict", map |-> [doc |-> "d2"]]] }

\* the chunkers that take the concurrent calls
ConcurrentChunkers == {NewChunker(1, 0, 1), NewChunker(MaxChunkCfg, 0, 0)}

\* several calls of chunk_document have been made on one chunker, each with
\* arguments of its own, and none has run yet
InitConcurrent ==
    /\ chunker \in ConcurrentChunkers
    /\ input \in [ConcurrentCalls -> ConcurrentInputs]
    /\ pc = [c \in ConcurrentCalls |-> "validate"]
    /\ meta = [c \in ConcurrentCalls |-> [kind |-> "dict", map |-> EmptyMap]]
    /\ stages = [c \in ConcurrentCalls |-> <<"VALIDATE">>]
    /\ regions = [c \in ConcurrentCalls |-> <<>>]
    /\ sections = [c \in ConcurrentCalls |-> <<>>]
    /\ sec_i = [c \in ConcurrentCalls |-> 1]
    /\ section_chunks = [c \in ConcurrentCalls |-> <<>>]
    /\ chunks = [c \in ConcurrentCalls |-> <<>>]
    /\ final_chunks = [c \in ConcurrentCalls |-> <<>>]
    /\ outcome = [c \in ConcurrentCalls |-> Pending]
    /\ dicts = [c \in ConcurrentCalls |-> NoDicts]
    /\ split_result = [c \in ConcurrentCalls |-> <<>>]

\* any call in flight takes its next step
NextConcurrent ==
    \E c \in ConcurrentCalls :
        \/ ValidateText(c)
        \/ CheckEmpty(c)
        \/ DetectRegions(c)
        \/ SplitSections(c)
        \/ ProcessSection(c)
        \/ FinishSections(c)
        \/ AddOverlap(c)
        \/ Return(c)

SpecConcurrent == InitConcurrent /\ [][NextConcurrent]_vars

\* the chunks of the sections secs, in order (lines 118-121 run to the end)
RECURSIVE ExtendAll(_, _, _)
ExtendAll(secs, md, max_chunk_size) ==
    IF secs = <<>> THEN <<>>
    ELSE process_section(secs[1], md, max_chunk_size).chunks
         \o ExtendAll(Tail(secs), md, max_chunk_size)

\* what chunk_document returns for a non-blank string text and metadata None
\* or a dict when the call runs from start to end with no other call in
\* flight
RunAlone(ch, args) ==
    LET text     == args.text.val
        metadata == IF args.metadata.kind = "none"
                      THEN [kind |-> "dict", map |-> EmptyMap]
                    ELSE args.metadata
        secs     == split_into_sections(text, detect_special_regions(text))
        cs       == ExtendAll(secs, metadata, ch.max_chunk_size)
    IN  add_overlap(cs, ch.overlap_size)

\* a direct call of process_section on a section of ProcessSections
InitProcess ==
    /\ chunker \in {NewChunker(mx, 0, 0) : mx \in 1..MaxChunkCfg}
    /\ \E section \in ProcessSections : sections = [c \in Calls |-> <<section>>]
    /\ \E md \in ProcessMetadata : meta = [c \in Calls |-> md]
    /\ pc = [c \in Calls |-> "process_args"]
    /\ input = [c \in Calls |-> NoInput]
    /\ stages = [c \in Calls |-> <<>>]
    /\ regions = [c \in Calls |-> <<>>]
    /\ sec_i = [c \in Calls |-> 1]
    /\ section_chunks = [c \in Calls |-> <<>>]
    /\ chunks = [c \in Calls |-> <<>>]
    /\ final_chunks = [c \in Calls |-> <<>>]
    /\ outcome = [c \in Calls |-> Pending]
    /\ dicts = [c \in Calls |-> NoDicts]
    /\ split_result = [c \in Calls |-> <<>>]

NextProcess == \E c \in Calls : ProcessCall(c)

SpecProcess == InitProcess /\ [][NextProcess]_vars

NextSections == \E c \in Calls : DetectRegions(c) \/ SplitSections(c)

SpecSections == InitSections /\ [][NextSections]_vars

(***************************************************************************)
(* Properties.                                                             *)
(***************************************************************************)
IsPrefixOf(s1, s2) == Len(s1) <= Len(s2) /\ s1 = SubSeq(s2, 1, Len(s1))

\* call c was made with a string that has a non-whitespace character
NonBlankCall(c) ==
    /\ pc[c] # "idle"
    /\ input[c].text.kind = "str"
    /\ \E i \in 1..Len(input[c].text.val) : input[c].text.val[i] \notin WS

\* call c was made with an empty or whitespace-only string
BlankCall(c) ==
    /\ pc[c] # "idle"
    /\ input[c].text.kind = "str"
    /\ \A i \in 1..Len(input[c].text.val) : input[c].text.val[i] \in WS

\* C1: a call on non-blank string text enters the stages in the order
\* VALIDATE, DETECT_REGIONS, SPLIT_SECTIONS, PROCESS_SECTIONS, ADD_OVERLAP,
\* RETURN: its stage history is always a prefix of that order, it is the
\* whole order when the call returns, every call with metadata None or a
\* mapping does return, and once ADD_OVERLAP has been entered every section
\* has been processed into chunks.
C1_StageOrder ==
    \A c \in Calls :
        NonBlankCall(c) =>
            /\ IsPrefixOf(stages[c], StageOrder)
            /\ outcome[c].kind = "returned" => stages[c] = StageOrder
            /\ (pc[c] = "done" /\ input[c].metadata.kind # "nonmapping") =>
                   (outcome[c].kind = "returned" /\ stages[c] = StageOrder)
            /\ Len(stages[c]) >= 5 =>
                   /\ sec_i[c] = Len(sections[c]) + 1
                   /\ \A k \in 1..Len(sections[c]) :
                          \E i \in 1..Len(chunks[c]) :
                              chunks[c][i].start_index = sections[c][k].start

C1_Witness ==
    \E c \in Calls :
        /\ NonBlankCall(c)
        /\ outcome[c].kind = "returned"
        /\ stages[c] = StageOrder
        /\ Len(sections[c]) >= 2

\* C2: a call on empty or whitespace-only string text returns the empty
\* chunk sequence directly after validation: it never reaches region
\* detection, section splitting, section processing or overlap.
C2_EmptyShortCircuit ==
    \A c \in Calls :
        BlankCall(c) =>
            /\ pc[c] \in {"validate", "check_empty", "done"}
            /\ regions[c] = <<>> /\ sections[c] = <<>>
            /\ chunks[c] = <<>> /\ final_chunks[c] = <<>>
            /\ pc[c] = "done" =>
                   /\ outcome[c] = Returned(<<>>)
                   /\ stages[c] = <<"VALIDATE", "RETURN">>

C2_Witness ==
    \E c \in Calls :
        /\ BlankCall(c)
        /\ Len(input[c].text.val) > 0
        /\ pc[c] = "done"
        /\ outcome[c].kind = "returned"

\* C3: when text is None or not a string the call raises InvalidInputError
\* from validation: the empty-text check and the stages are never reached,
\* the error is not a ProcessingError, and nothing is produced.
C3_InvalidInput ==
    \A c \in Calls :
        (pc[c] # "idle" /\ input[c].text.kind # "str") =>
            /\ pc[c] \in {"validate", "done"}
            /\ stages[c] = <<"VALIDATE">>
            /\ regions[c] = <<>> /\ sections[c] = <<>>
            /\ chunks[c] = <<>> /\ final_chunks[c] = <<>>
            /\ pc[c] = "done" => outcome[c] = Raised("InvalidInputError", "")

C3_Witness ==
    \E c \in Calls :
        /\ input[c].text.kind = "int"
        /\ pc[c] = "done"
        /\ outcome[c].error = "InvalidInputError"

\* C4: a finished call either returned a complete chunk sequence (the
\* overlapped chunks of all sections, or the empty sequence for blank text)
\* or raised one typed error without handing over any chunk: the
\* input-validation error, or a ProcessingError that carries its cause; an
\* exception escaping a stage (here the TypeError of a metadata argument that
\* is not a mapping) reaches the caller as ProcessingError.
C4_TypedOutcome ==
    \A c \in Calls :
        pc[c] = "done" =>
            /\ \/ /\ outcome[c].kind = "returned"
                  /\ IF BlankCall(c) THEN outcome[c].value = <<>>
                     ELSE /\ outcome[c].value = final_chunks[c]
                          /\ sec_i[c] = Len(sections[c]) + 1
                          /\ Len(outcome[c].value) = Len(chunks[c])
                          /\ Len(outcome[c].value) >= Len(sections[c])
               \/ /\ outcome[c].kind = "raised"
                  /\ outcome[c].value = <<>>
                  /\ \/ /\ outcome[c].error = "InvalidInputError"
                        /\ input[c].text.kind # "str"
                     \/ /\ outcome[c].error = "ProcessingError"
                        /\ outcome[c].cause # ""
                        /\ NonBlankCall(c)
            /\ (NonBlankCall(c) /\ input[c].metadata.kind = "nonmapping") =>
                   outcome[c] = Raised("ProcessingError", "TypeError")

C4_Witness ==
    \E c \in Calls :
        /\ pc[c] = "done"
        /\ outcome[c] = Raised("ProcessingError", "TypeError")
        /\ Len(sections[c]) >= 1

\* C5: construction fails exactly when max_chunk_size <= 0, min_chunk_size < 0,
\* min_chunk_size > max_chunk_size or overlap_size < 0; overlap_size >=
\* max_chunk_size alone is accepted with a warning; a chunker instance exists
\* only with a valid configuration.
C5_ConfigValidation ==
    chunker.state # "none" =>
        LET mx == chunker.max_chunk_size
            mn == chunker.min_chunk_size
            ov == chunker.overlap_size
        IN  /\ chunker.state \in {"ready", "ValueError"}
            /\ chunker.state = "ValueError" <=>
                   (mx <= 0 \/ mn < 0 \/ mn > mx \/ ov < 0)
            /\ chunker.state = "ready" =>
                   (mx > 0 /\ mn >= 0 /\ mn <= mx /\ ov >= 0)
            /\ (mx > 0 /\ mn >= 0 /\ mn <= mx /\ ov >= mx) =>
                   (chunker.state = "ready" /\ chunker.warned)

C5_Witness ==
    /\ chunker.state = "ready"
    /\ chunker.overlap_size >= chunker.max_chunk_size
    /\ chunker.min_chunk_size = chunker.max_chunk_size

\* C6: every chunk the Chunk Processor produced (before overlap) has
\* rough_token_count(content) <= max_chunk_size unless it is one sentence.
C6_SizeBound ==
    \A c \in Calls :
        \A i \in 1..Len(chunks[c]) :
            \/ rough_token_count(chunks[c][i].content) <= chunker.max_chunk_size
            \/ Len(split_sentences(chunks[c][i].content)) <= 1

\* C7: every chunk the Chunk Processor produced (before overlap) records
\* token_count = rough_token_count(content).
C7_TokenCount ==
    \A c \in Calls :
        \A i \in 1..Len(chunks[c]) :
            chunks[c][i].token_count = rough_token_count(chunks[c][i].content)

\* the section whose chunks are in section_chunks
LastSection(c) == sections[c][sec_i[c] - 1]

\* C8: the chunks of a processed section cover its span exactly: the first
\* starts at the section's start, each next one starts where the previous one
\* ends, the last ends at the section's end, and every chunk has start <= end.
C8_SpanCoverage ==
    \A c \in Calls :
        sec_i[c] > 1 =>
            LET cs == section_chunks[c]
            IN  /\ Len(cs) >= 1
                /\ cs[1].start_index = LastSection(c).start
                /\ cs[Len(cs)].end_index = LastSection(c).end
                /\ \A i \in 2..Len(cs) : cs[i].start_index = cs[i - 1].end_index
                /\ \A i \in 1..Len(cs) : cs[i].start_index <= cs[i].end_index

C8_Witness ==
    \E c \in Calls :
        /\ sec_i[c] > 1
        /\ Len(section_chunks[c]) >= 2
        /\ LastSection(c).end > LastSection(c).start + Len(section_chunks[c][1].content)
                                   + 1 + Len(section_chunks[c][2].content)

\* C9: in the final (overlapped) chunk sequence, start and end are both
\* non-decreasing from each chunk to the next, across section boundaries too.
C9_DocumentOrder ==
    \A c \in Calls :
        /\ \A i \in 1..(Len(final_chunks[c]) - 1) :
               /\ final_chunks[c][i + 1].start_index >= final_chunks[c][i].start_index
               /\ final_chunks[c][i + 1].end_index >= final_chunks[c][i].end_index
        /\ outcome[c].kind = "returned" => outcome[c].value = final_chunks[c]

C9_Witness ==
    \E c \in Calls :
        /\ outcome[c].kind = "returned"
        /\ chunker.overlap_size > 0
        /\ Len(sections[c]) >= 2
        /\ Len(outcome[c].value) >= 2
        /\ outcome[c].value[1].content # chunks[c][1].content
        /\ outcome[c].value[2].start_index > outcome[c].value[1].end_index

\* index i of the text lies in one of the sections of call c
InSections(c, i) ==
    \E k \in 1..Len(sections[c]) :
        sections[c][k].start <= i /\ i < sections[c][k].end

\* index i of t lies in a match of the paragraph separator
InSeparator(t, i) ==
    LET seps == SepMatchesFrom(t, 0)
    IN  \E k \in 1..Len(seps) : seps[k].start <= i /\ i < seps[k].end

\* index i of t lies in a paragraph that is whitespace only
InBlankParagraph(t, i) ==
    LET seps == SepMatchesFrom(t, 0)
        lo == SetMax({0} \cup {seps[k].end : k \in {j \in 1..Len(seps) : seps[j].end <= i}})
        hi == SetMin({Len(t)} \cup {seps[k].start : k \in {j \in 1..Len(seps) : seps[j].start > i}})
    IN  /\ ~InSeparator(t, i)
        /\ \A j \in lo..(hi - 1) : Ch(t, j) \in WS

\* the sections of call c are in document order, hold text[start:end] and
\* do not overlap
SectionsInOrder(c) ==
    LET t == input[c].text.val
        S == sections[c]
    IN  /\ \A k \in 1..Len(S) :
               /\ 0 <= S[k].start /\ S[k].start < S[k].end /\ S[k].end <= Len(t)
               /\ S[k].content = Slice(t, S[k].start, S[k].end)
        /\ \A k \in 1..(Len(S) - 1) : S[k].end <= S[k + 1].start

\* call c has run the Section Splitter
SectionsSplit(c) == NonBlankCall(c) /\ Len(stages[c]) >= 4

\* C10 as stated: sections are in document order, hold text[start:end], do
\* not overlap, and every character outside all sections belongs to a
\* blank-line paragraph separator.
C10_Original ==
    \A c \in Calls :
        SectionsSplit(c) =>
            /\ SectionsInOrder(c)
            /\ \A i \in 0..(Len(input[c].text.val) - 1) :
                   InSections(c, i) \/ InSeparator(input[c].text.val, i)

\* C10 amended: sections are in document order, hold text[start:end], do not
\* overlap, and every character outside all sections belongs to a blank-line
\* paragraph separator or to a whitespace-only paragraph, which is skipped.
C10_Partition ==
    \A c \in Calls :
        SectionsSplit(c) =>
            /\ SectionsInOrder(c)
            /\ \A i \in 0..(Len(input[c].text.val) - 1) :
                   \/ InSections(c, i)
                   \/ InSeparator(input[c].text.val, i)
                   \/ InBlankParagraph(input[c].text.val, i)

C10_Witness ==
    \E c \in Calls :
        /\ SectionsSplit(c)
        /\ Len(sections[c]) >= 1
        /\ \E i \in 0..(Len(input[c].text.val) - 1) :
               InSeparator(input[c].text.val, i)
        /\ \E i \in 0..(Len(input[c].text.val) - 1) :
               ~InSections(c, i) /\ InBlankParagraph(input[c].text.val, i)

\* number of characters of [start, end) covered by regions of kind k, each
\* region counted separately (the summed overlap length)
CoveredChars(rs, k, start, end) ==
    Cardinality({<<j, i>> \in (1..Len(rs)) \X (start..(end - 1)) :
                    rs[j].type = k /\ rs[j].start <= i /\ i < rs[j].end})

\* covered / length >= formula_threshold
AtThreshold(covered, length) == covered * ThresholdDen >= ThresholdNum * length

OverlapFlags == {"has_previous_overlap", "has_next_overlap"}

\* the mapping the caller of call c passed in (empty for None)
CallerMap(c) == input[c].metadata.map

\* C12 as stated: every returned chunk holds, for every key of the caller's
\* metadata mapping, the caller's value, and section_type equal to its kind.
C12_Original ==
    \A c \in Calls :
        outcome[c].kind = "returned" =>
            \A i \in 1..Len(outcome[c].value) :
                LET ch == outcome[c].value[i]
                IN  /\ \A k \in DOMAIN CallerMap(c) :
                           k \in DOMAIN ch.metadata /\ ch.metadata[k] = CallerMap(c)[k]
                    /\ ch.metadata["section_type"] = ch.chunk_type

\* C12 amended: every returned chunk holds section_type equal to its kind,
\* the caller's value for every other key of the caller's mapping except an
\* overlap flag the Overlap Handler set on that chunk (which holds true), and
\* no key besides the caller's keys, section_type and the overlap flags.
C12_Metadata ==
    \A c \in Calls :
        outcome[c].kind = "returned" =>
            \A i \in 1..Len(outcome[c].value) :
                LET ch == outcome[c].value[i]
                IN  /\ ch.metadata["section_type"] = ch.chunk_type
                    /\ ch.chunk_type = chunks[c][i].chunk_type
                    /\ DOMAIN ch.metadata \subseteq
                           DOMAIN CallerMap(c) \cup {"section_type"} \cup OverlapFlags
                    /\ \A k \in DOMAIN CallerMap(c) \ {"section_type"} :
                           /\ k \in DOMAIN ch.metadata
                           /\ IF k \in OverlapFlags
                                THEN /\ ch.metadata[k] \in {CallerMap(c)[k], "True"}
                                     /\ ch.content = chunks[c][i].content =>
                                            ch.metadata[k] = CallerMap(c)[k]
                              ELSE ch.metadata[k] = CallerMap(c)[k]

\* a returned overlapped chunk that keeps the caller's doc value while its
\* section_type and has_previous_overlap hold the chunker's values
C12_Witness ==
    \E c \in Calls :
        /\ outcome[c].kind = "returned"
        /\ "section_type" \in DOMAIN CallerMap(c)
        /\ \E i \in 1..Len(outcome[c].value) :
               LET ch == outcome[c].value[i]
               IN  /\ ch.metadata["doc"] = "d2"
                   /\ ch.metadata["section_type"] # "caller"
                   /\ ch.metadata["has_previous_overlap"] = "True"

\* the direct add_overlap call of c has returned
OverlapReturned(c) == pc[c] = "overlap_returned"

\* C13: add_overlap returns its input sequence unchanged, the same chunks with
\* the same contents, metadata and token counts, whenever the sequence has
\* fewer than 2 chunks or overlap_size is 0.
C13_NoOp ==
    \A c \in Calls :
        (OverlapReturned(c) /\ (Len(chunks[c]) < 2 \/ chunker.overlap_size = 0)) =>
            /\ final_chunks[c] = chunks[c]
            /\ dicts[c].output_ids = dicts[c].input_ids
            /\ chunks[c] \in OverlapInputs

C13_Witness ==
    \E c \in Calls :
        /\ OverlapReturned(c)
        /\ chunker.overlap_size = 0
        /\ Len(chunks[c]) >= 2
        /\ final_chunks[c] = chunks[c]
        /\ chunks[c][1].content # <<>>

\* C14: add_overlap returns a sequence of the same length as its input, and
\* the chunk at each index keeps the kind, start and end of the input chunk
\* at that index.
C14_Frame ==
    \A c \in Calls :
        OverlapReturned(c) =>
            /\ Len(final_chunks[c]) = Len(chunks[c])
            /\ \A i \in 1..Len(chunks[c]) :
                   /\ final_chunks[c][i].chunk_type = chunks[c][i].chunk_type
                   /\ final_chunks[c][i].start_index = chunks[c][i].start_index
                   /\ final_chunks[c][i].end_index = chunks[c][i].end_index
                   /\ chunks[c][i].end_index =
                          chunks[c][i].start_index + Len(chunks[c][i].content)

C14_Witness ==
    \E c \in Calls :
        /\ OverlapReturned(c)
        /\ chunker.overlap_size > 0
        /\ Len(chunks[c]) >= 2
        /\ \E i \in 1..Len(chunks[c]) :
               Len(final_chunks[c][i].content) > Len(chunks[c][i].content)

\* metadata m holds the flag k
Flagged(m, k) == k \in DOMAIN m /\ m[k] = "True"

\* call c applied overlap
OverlapApplied(c) ==
    OverlapReturned(c) /\ Len(chunks[c]) >= 2 /\ chunker.overlap_size > 0

\* C15: after add_overlap on at least 2 chunks with overlap_size > 0
\* every chunk at index i > 0 is prefixed with `[...<overlap>] ` and has
\* has_previous_overlap = true, and every chunk at index i < last is suffixed
\* with ` [<overlap>...]` and has has_next_overlap = true.
C15_OverlapMarkers ==
    \A c \in Calls :
        OverlapApplied(c) =>
            \A i \in 1..Len(chunks[c]) :
                LET out == final_chunks[c][i]
                IN  /\ i > 1 =>
                           /\ StartsWith(out.content, 0, <<"[", ".", ".", ".">>)
                           /\ Flagged(out.metadata, "has_previous_overlap")
                    /\ i < Len(chunks[c]) =>
                           /\ out.content # <<>>
                           /\ SubSeq(out.content, Len(out.content) - 3,
                                     Len(out.content)) = <<".", ".", ".", "]">>
                           /\ Flagged(out.metadata, "has_next_overlap")

\* C16: add_overlap never mutates its input: the call leaves every input
\* chunk's content, metadata map, start, end and token_count as they were,
\* and when overlap was applied no output chunk refers to the metadata dict
\* of an input chunk.
C16_NoMutation ==
    [][\A c \in Calls :
          pc[c] = "overlap_args" =>
              /\ chunks'[c] = chunks[c]
              /\ \A i \in 1..Len(chunks[c]) :
                     dicts'[c].heap[dicts[c].input_ids[i]] = chunks[c][i].metadata
              /\ (Len(chunks[c]) >= 2 /\ chunker.overlap_size > 0) =>
                     \A i, j \in 1..Len(chunks[c]) :
                         dicts'[c].output_ids[i] # dicts'[c].input_ids[j]]_vars

C16_Witness ==
    \E c \in Calls :
        /\ OverlapApplied(c)
        /\ \E i \in 1..Len(chunks[c]) :
               /\ Flagged(final_chunks[c][i].metadata, "has_next_overlap")
               /\ ~Flagged(chunks[c][i].metadata, "has_next_overlap")
               /\ dicts[c].output_ids[i] # dicts[c].input_ids[i]

\* the regions of kind k among rs, in their order
RegionsOfKind(rs, k) == LET IsK(r) == r.type = k IN SelectSeq(rs, IsK)

\* C17: in the region sequence of the Region Detector two distinct regions of
\* the same kind never overlap: one ends at or before the other starts.
C17_SameKindDisjoint ==
    \A c \in Calls :
        \A i, j \in 1..Len(regions[c]) :
            (i < j /\ regions[c][i].type = regions[c][j].type) =>
                \/ regions[c][i].end <= regions[c][j].start
                \/ regions[c][j].end <= regions[c][i].start

\* the offsets at which a line of t begins
LineStarts(t) == {p \in 0..Len(t) : IsLineStart(t, p)}

\* end (exclusive) of the line that begins at p
LineEndOf(t, p) == SetMin({k \in p..Len(t) : k = Len(t) \/ Ch(t, k) = "\n"})

\* the line that begins at p is table-like
TableLineAt(t, p) == IsTableLine(Slice(t, p, LineEndOf(t, p)))

\* the offsets at which a maximal run of table-like lines begins
TableRunStarts(t) ==
    {p \in LineStarts(t) :
        /\ TableLineAt(t, p)
        /\ p > 0 => ~TableLineAt(t, SetMax({q \in LineStarts(t) : q < p}))}

\* end (exclusive) of the last line of the run that begins at p
TableRunEnd(t, p) ==
    SetMin({LineEndOf(t, q) : q \in
              {q \in LineStarts(t) :
                  /\ q >= p /\ TableLineAt(t, q)
                  /\ \/ LineEndOf(t, q) = Len(t)
                     \/ ~TableLineAt(t, LineEndOf(t, q) + 1)}})

\* C18: every maximal run of consecutive table-like lines yields exactly one
\* TABLE region, whose start is the offset of the first line of the run, whose
\* span covers all lines of the run and whose text is text[start:end]; a run
\* open at the end of the document is emitted too.
C18_TableRuns ==
    \A c \in Calls :
        Len(stages[c]) >= 3 =>
            LET t  == input[c].text.val
                ts == RegionsOfKind(regions[c], TABLE)
            IN  /\ Len(ts) = Cardinality(TableRunStarts(t))
                /\ \A p \in TableRunStarts(t) :
                       \E i \in 1..Len(ts) :
                           /\ ts[i].start = p
                           /\ ts[i].end = TableRunEnd(t, p)
                /\ \A i \in 1..Len(ts) :
                       ts[i].content = Slice(t, ts[i].start, ts[i].end)

\* the direct split_sentences call of c has returned a list
SentencesReturned(c) ==
    pc[c] = "sentences_returned" /\ outcome[c].kind = "returned"

\* C19: no sentence returned by the Sentence Splitter contains the formula
\* placeholder <<<FORMULA>>> or the abbreviation marker <DOT>.
C19_NoPlaceholders ==
    \A c \in Calls :
        SentencesReturned(c) =>
            \A j \in 1..Len(split_result[c]) :
                /\ ~Contains(split_result[c][j], placeholder)
                /\ ~Contains(split_result[c][j], DOT)

\* the characters of x that are not whitespace
NonWs(x) == LET Solid(ch) == ch \notin WS IN SelectSeq(x, Solid)

\* sentence j of S holds the text f at the place where p characters other
\* than whitespace precede it in the whole sequence
HoldsAt(S, j, f, p) ==
    LET before == Len(NonWs(Join(SubSeq(S, 1, j - 1), <<>>)))
    IN  \E o \in 0..(Len(S[j]) - Len(f)) :
            /\ Slice(S[j], o, o + Len(f)) = f
            /\ before + Len(NonWs(Slice(S[j], 0, o))) = p

\* C20: every formula match of the input appears unbroken inside exactly one
\* returned sentence, at the position it had in the input relative to the
\* surrounding text and to the other formulas.
C20_FormulasIntact ==
    \A c \in Calls :
        SentencesReturned(c) =>
            LET t  == input[c].text.val
                ms == FormulaMatches(t, 0)
                S  == split_result[c]
            IN  \A k \in 1..Len(ms) :
                    LET f == Slice(t, ms[k].start, ms[k].end)
                        p == Len(NonWs(Slice(t, 0, ms[k].start)))
                    IN  Cardinality({j \in 1..Len(S) : HoldsAt(S, j, f, p)}) = 1

\* the direct call of process_section by c has come back
ProcessReturned(c) == pc[c] = "process_returned"

\* the try body of process_section raises for this section and base_metadata
ProcessingFails(section, md) ==
    \/ KeyMissing(section, "start")
    \/ KeyMissing(section, "end")
    \/ md.kind # "dict"

\* C21: process_section never drops a section: it returns at least one
\* chunk and does not raise, and when processing the section fails it returns
\* exactly one chunk with the section's unsplit content and metadata.error =
\* "processing_failed", or "split_failed" when the failure is in the
\* sentence-splitting and packing step.
C21_NeverDrops ==
    \A c \in Calls :
        ProcessReturned(c) =>
            LET section == sections[c][1]
                cs      == section_chunks[c]
            IN  /\ outcome[c].kind = "returned"
                /\ Len(cs) >= 1
                /\ ProcessingFails(section, meta[c]) =>
                       /\ Len(cs) = 1
                       /\ cs[1].content = section.content
                       /\ "error" \in DOMAIN cs[1].metadata
                       /\ cs[1].metadata["error"] =
                              IF SplitInvoked(section, chunker.max_chunk_size)
                                THEN "split_failed" ELSE "processing_failed"

\* the locals of call c
Locals(c) ==
    <<pc[c], input[c], meta[c], stages[c], regions[c], sections[c], sec_i[c],
      section_chunks[c], chunks[c], final_chunks[c], outcome[c]>>

\* a step leaves the chunker's configuration as it is and changes the locals
\* of at most one call
C22_Isolated ==
    /\ chunker' = chunker
    /\ \A c1, c2 \in ConcurrentCalls :
           (Locals(c1)' # Locals(c1) /\ Locals(c2)' # Locals(c2)) => c1 = c2

\* a finished call has returned what it returns when run alone
C22_SameAsAlone ==
    \A c \in ConcurrentCalls :
        pc[c] = "done" => outcome[c] = Returned(RunAlone(chunker, input[c]))

\* C22: with several calls of chunk_document in flight on one chunker, under
\* any interleaving of their stages each call returns the chunk sequence it
\* returns when run alone, and no step of a call changes the chunker's
\* configuration or the state of another call.
C22_NoCoordination == [][C22_Isolated]_vars /\ []C22_SameAsAlone

\* two calls on different texts have both returned several chunks, and one
\* of them returned while the other was between its stages
C22_Witness ==
    \E c1, c2 \in ConcurrentCalls :
        /\ c1 # c2
        /\ input[c1] # input[c2]
        /\ outcome[c1].kind = "returned" /\ Len(outcome[c1].value) >= 2
        /\ pc[c2] = "process_sections" /\ sec_i[c2] = 2 /\ Len(sections[c2]) >= 2

\* the kinds of the chunks cs
KindsOf(cs) == {cs[i].chunk_type : i \in 1..Len(cs)}

\* C23: every section the Section Splitter produces from the Region
\* Detector's output and every chunk of chunk_document (per section, before
\* overlap, after overlap and as returned) has one of the active kinds TEXT,
\* FORMULA, TABLE, LIST, HEADING_WITH_CONTENT; the reserved kinds IMAGE, CODE,
\* HEADER and FOOTER never appear.
C23_ActiveKinds ==
    \A c \in Calls :
        /\ \A k \in 1..Len(sections[c]) : sections[c][k].type \in ActiveTypes
        /\ KindsOf(section_chunks[c]) \subseteq ActiveTypes
        /\ KindsOf(chunks[c]) \subseteq ActiveTypes
        /\ KindsOf(final_chunks[c]) \subseteq ActiveTypes
        /\ KindsOf(outcome[c].value) \subseteq ActiveTypes
        /\ KindsOf(outcome[c].value) \cap ReservedTypes = {}

C23_Witness ==
    \E c \in Calls :
        /\ outcome[c].kind = "returned"
        /\ {HEADING_WITH_CONTENT, LIST} \subseteq KindsOf(outcome[c].value)
        /\ \E k \in 1..Len(sections[c]) : sections[c][k].type \in {FORMULA, TABLE}

\* the direct call of process_section by c went through the packing loop:
\* the section is larger than max_chunk_size, has its keys, base_metadata is
\* a dict and split_sentences found sentences
Packed(c) ==
    /\ ProcessReturned(c)
    /\ SplitInvoked(sections[c][1], chunker.max_chunk_size)
    /\ ~ProcessingFails(sections[c][1], meta[c])
    /\ split_result[c] # <<>>

\* sum of the rough token counts of the sentences ss
RECURSIVE TokenSum(_)
TokenSum(ss) ==
    IF ss = <<>> THEN 0 ELSE rough_token_count(ss[1]) + TokenSum(Tail(ss))

\* the sentences ss[1..n]
Front(ss, n) == SubSeq(ss, 1, n)

\* C24: a section larger than max_chunk_size is packed greedily: the current
\* chunk is closed before sentence s exactly when the running token total
\* plus the tokens of s exceeds max_chunk_size and the buffer is not empty.
\* So every chunk is the join of a non-empty run of sentences, a sentence is
\* added to a non-empty chunk only where the total stays within
\* max_chunk_size, every chunk but the last was closed by a sentence that
\* would exceed it, and the runs of the chunks, in chunk order, are the
\* sentence sequence: nothing dropped, duplicated or reordered.
C24_GreedyPacking ==
    \A c \in Calls :
        Packed(c) =>
            LET mx == chunker.max_chunk_size
                S  == split_result[c]
                G  == PackBuffers(S, <<>>, 0, mx)
                cs == section_chunks[c]
                before(i) == Len(Join([j \in 1..(i - 1) |-> G[j].sentence_buffer], <<>>))
            IN  /\ Len(cs) = Len(G)
                /\ \A i \in 1..Len(G) :
                       LET B == G[i].sentence_buffer
                       IN  /\ Len(B) >= 1
                           /\ B = SubSeq(S, before(i) + 1, before(i) + Len(B))
                           /\ cs[i].content = Join(B, <<" ">>)
                           /\ \A n \in 1..(Len(B) - 1) :
                                  TokenSum(Front(B, n)) + rough_token_count(B[n + 1]) <= mx
                           /\ i < Len(G) =>
                                  TokenSum(B) + rough_token_count(G[i + 1].sentence_buffer[1]) > mx
                /\ before(Len(G) + 1) = Len(S)

C24_Witness ==
    \E c \in Calls :
        /\ Packed(c)
        /\ Len(section_chunks[c]) >= 3
        /\ Len(split_result[c]) > Len(section_chunks[c])
        /\ \E i \in 1..Len(split_result[c]) : rough_token_count(split_result[c][i]) = 0

\* the direct call of process_section by c was given a section that has its
\* span, of at most max_chunk_size tokens, and a dict as base_metadata
SmallSection(c) ==
    /\ ProcessReturned(c)
    /\ ~ProcessingFails(sections[c][1], meta[c])
    /\ rough_token_count(sections[c][1].content) <= chunker.max_chunk_size

\* C25: for a section with rough_token_count(content) <= max_chunk_size the
\* Chunk Processor returns exactly one chunk; its content, kind, start and
\* end are the section's, its metadata is the base metadata plus
\* section_type, and split_sentences is not called.
C25_SingleChunk ==
    \A c \in Calls :
        SmallSection(c) =>
            LET section == sections[c][1]
                cs      == section_chunks[c]
            IN  /\ outcome[c] = Returned(cs)
                /\ Len(cs) = 1
                /\ cs[1].content = section.content
                /\ cs[1].chunk_type = section.type
                /\ cs[1].start_index = section.start
                /\ cs[1].end_index = section.end
                /\ cs[1].metadata = MapPut(meta[c].map, "section_type", section.type)
                /\ split_result[c] = <<>>

\* a small section of several sentences, with blanks at its end, came back
\* as one chunk at the upper limit of max_chunk_size
C25_Witness ==
    \E c \in Calls :
        /\ SmallSection(c)
        /\ rough_token_count(sections[c][1].content) = chunker.max_chunk_size
        /\ Len(split_sentences(sections[c][1].content)) >= 2
        /\ sections[c][1].content # Strip(sections[c][1].content)
        /\ Len(section_chunks[c]) = 1

\* the regions of kind k among rs that overlap the span [start, end)
OverlappingOfKind(rs, k, start, end) ==
    {j \in 1..Len(rs) :
        rs[j].type = k /\ ~(rs[j].end <= start \/ rs[j].start >= end)}

PipelineOverlapped(c) ==
    /\ stages[c] = StageOrder
    /\ Len(chunks[c]) >= 2
    /\ chunker.overlap_size > 0

\* C27: every chunk that add_overlap returns for at least 2 chunks with
\* overlap_size > 0 records token_count = rough_token_count of its own
\* (overlapped) content, and that is never smaller than the token_count of
\* the input chunk at the same index.
C27_TokensRecomputed ==
    \A c \in Calls :
        PipelineOverlapped(c) =>
            /\ Len(final_chunks[c]) = Len(chunks[c])
            /\ \A i \in 1..Len(final_chunks[c]) :
                   /\ final_chunks[c][i].token_count =
                          rough_token_count(final_chunks[c][i].content)
                   /\ final_chunks[c][i].token_count >= chunks[c][i].token_count

\* an input chunk packed from several sentences, an output chunk with more
\* tokens than its input chunk and an output chunk whose content is its
\* input chunk's
C27_Witness ==
    \E c \in Calls :
        /\ PipelineOverlapped(c)
        /\ \E i \in 1..Len(chunks[c]) :
               Len(split_sentences(chunks[c][i].content)) >= 2
        /\ \E i \in 1..Len(chunks[c]) :
               final_chunks[c][i].token_count > chunks[c][i].token_count
        /\ \E i \in 1..Len(chunks[c]) :
               final_chunks[c][i].content = chunks[c][i].content

\* C28: a call on a string with a non-whitespace character gets at least one
\* section from the Section Splitter and at least one chunk from every
\* section it processes, so add_overlap hands at least one chunk to the
\* average-size computation, which never divides by zero; the call, when its
\* metadata is None or a dict, returns a non-empty chunk sequence.
C28_NonEmptyResult ==
    \A c \in Calls :
        NonBlankCall(c) =>
            /\ SectionsSplit(c) => Len(sections[c]) >= 1
            /\ (SectionsSplit(c) /\ sec_i[c] > 1) => Len(section_chunks[c]) >= 1
            /\ (SectionsSplit(c) /\ sec_i[c] > 1) => Len(chunks[c]) >= sec_i[c] - 1
            /\ pc[c] = "return" => Len(final_chunks[c]) >= 1
            /\ outcome[c].cause # "ZeroDivisionError"
            /\ outcome[c].kind = "returned" => Len(outcome[c].value) >= 1
            /\ (pc[c] = "done" /\ input[c].metadata.kind # "nonmapping") =>
                   outcome[c].kind = "returned"

\* a text with a whitespace-only paragraph ahead of its only section has
\* come back as one chunk
C28_Witness ==
    \E c \in Calls :
        /\ NonBlankCall(c)
        /\ outcome[c].kind = "returned"
        /\ Len(outcome[c].value) = 1
        /\ Len(Paragraphs(input[c].text.val)) >= 2
        /\ IsBlank(Paragraphs(input[c].text.val)[1])

\* the contiguous pieces of t of at most n characters, the empty one included
Pieces(t, n) ==
    {Slice(t, a, b) : <<a, b>> \in {x \in (0..Len(t)) \X (0..Len(t)) :
                                        x[1] <= x[2] /\ x[2] - x[1] <= n}}

\* content with the piece before injected ahead of it and the piece after
\* injected behind it, each in its marker; an empty piece injects nothing
Injected(before, content, after) ==
    (IF before # <<>> THEN <<"[", ".", ".", ".">> \o before \o <<"]", " ">> ELSE <<>>)
    \o content
    \o (IF after # <<>> THEN <<" ", "[">> \o after \o <<".", ".", ".", "]">> ELSE <<>>)

\* C29: overlap adds a bounded amount of neighbouring text and does not
\* cascade: each output chunk's content is the input chunk's content,
\* unchanged, with at most one piece injected before it, taken from the
\* original content of the previous input chunk, and at most one piece
\* injected after it, taken from the original content of the next input
\* chunk, each piece at most overlap_size * 4 characters long; the first
\* chunk gets nothing before it and the last nothing after it.
C29_BoundedOverlap ==
    \A c \in Calls :
        OverlapApplied(c) =>
            LET in  == chunks[c]
                out == final_chunks[c]
                n   == chunker.overlap_size * 4
            IN  /\ Len(out) = Len(in)
                /\ \A i \in 1..Len(in) :
                       \E before \in IF i > 1 THEN Pieces(in[i - 1].content, n)
                                      ELSE {<<>>} :
                           \E after \in IF i < Len(in) THEN Pieces(in[i + 1].content, n)
                                         ELSE {<<>>} :
                               out[i].content = Injected(before, in[i].content, after)

\* a chunk between a neighbour longer than overlap_size * 4 characters, of
\* which it got the last overlap_size * 4, and another of which it got the
\* first sentence
C29_Witness ==
    \E c \in Calls :
        /\ OverlapApplied(c)
        /\ Len(chunks[c]) >= 3
        /\ Len(chunks[c][1].content) > chunker.overlap_size * 4
        /\ final_chunks[c][2].content =
               Injected(Slice(chunks[c][1].content,
                              Len(chunks[c][1].content) - chunker.overlap_size * 4,
                              Len(chunks[c][1].content)),
                        chunks[c][2].content,
                        <<"B", ".">>)

\* C30: in the packing loop the token_count recorded on an emitted chunk is
\* the sum of the rough token counts of the sentences in its buffer; it is
\* <= max_chunk_size unless the chunk is exactly one sentence, and for every
\* chunk but the last it exceeds max_chunk_size once the token count of the
\* first sentence of the following chunk is added.
C30_RecordedTokens ==
    \A c \in Calls :
        Packed(c) =>
            LET mx == chunker.max_chunk_size
                G  == PackBuffers(split_result[c], <<>>, 0, mx)
                cs == section_chunks[c]
            IN  /\ Len(cs) = Len(G)
                /\ \A i \in 1..Len(cs) :
                       /\ cs[i].token_count = TokenSum(G[i].sentence_buffer)
                       /\ cs[i].token_count <= mx \/ Len(G[i].sentence_buffer) = 1
                       /\ i < Len(cs) =>
                              cs[i].token_count
                                  + rough_token_count(G[i + 1].sentence_buffer[1]) > mx

\* a chunk of one sentence recorded above max_chunk_size, next to a chunk of
\* several sentences recorded within it
C30_Witness ==
    \E c \in Calls :
        /\ Packed(c)
        /\ \E i \in 1..Len(section_chunks[c]) :
               section_chunks[c][i].token_count > chunker.max_chunk_size
        /\ \E i \in 1..Len(section_chunks[c]) :
               /\ section_chunks[c][i].token_count = chunker.max_chunk_size
               /\ Len(split_sentences(section_chunks[c][i].content)) >= 2

====
